---- MODULE Spec2Model ----
(***************************************************************************)
(* The capped transaction ledger of the payment service: the Postgres      *)
(* transaction repository, the PaymentService business logic, its HTTP     *)
(* handler and gRPC server, and the detached event emission.               *)
(*                                                                         *)
(* Money is counted in mills (1/1000 of a currency unit), so that request  *)
(* amounts finer than the column's two decimals can be written as          *)
(* integers: 1000.00 is 1000000, 0.01 is 10, 0.004 is 4.                   *)
(***************************************************************************)
EXTENDS Integers, Sequences, FiniteSets, TLC

(* ------------------------------ bounds -------------------------------- *)

\* The most rows the transactions table holds in a checked behaviour.
MaxTransactions == 3

\* The publish goroutines a behaviour with event emission starts at most.
MaxEvents == 3

(* ------------------------- program constants -------------------------- *)

\* const MaxTransactionTotal = 1000.0, in mills.
MaxTransactionTotal == 1000000

\* Concurrent request-handling goroutines.
Workers == {"w1", "w2"}

NoError == [kind |-> "nil", wrapped |-> FALSE]

\* The package-level sentinel errors of the service.
ErrInvalidAmount == [kind |-> "ErrInvalidAmount", wrapped |-> FALSE]

ErrInvalidUserID == [kind |-> "ErrInvalidUserID", wrapped |-> FALSE]

ErrExceedsMaximum == [kind |-> "ErrExceedsMaximum", wrapped |-> FALSE]

\* A store (I/O, deadline) error as the repository returns it.
ErrStore == [kind |-> "store", wrapped |-> FALSE]

\* fmt.Errorf("...: %w", err): a new error value that wraps err.
Wrap(err) == [kind |-> err.kind, wrapped |-> TRUE]

\* errors.Is(err, target): looks through the wrapping.
ErrorsIs(err, target) == err.kind = target.kind

\* err == target on error values: identity, which a wrapped error never has.
ErrorsEq(err, target) == err.kind = target.kind /\ ~err.wrapped

(* ------------------------------- state -------------------------------- *)

VARIABLES
    transactions,   \* the rows of table transactions, in insertion order
    now,            \* the database clock read by DEFAULT CURRENT_TIMESTAMP
    req,            \* per worker: the request it is serving and how far it got
    last,           \* the response the last step returned to its caller, if any
    tasks,          \* detached publish goroutines that have not run yet
    spawned,        \* number of publish goroutines started so far
    topic,          \* the messages written to the transactions topic
    dropped,        \* the publishes that failed: goroutine and kind, as logged
    counters,       \* the writer's LeastBytes balancer: bytes sent per partition
    committed,      \* per partition: the offset committed for the consumer group
    position,       \* per partition: the next offset the analytics reader fetches
    queued,         \* per partition: the offset handed to the reader's commit loop
    fetched,        \* the message ReadMessage returned, until it is processed
    analytics,      \* the aggregate of the analytics service
    handled,        \* per publish goroutine: how often ProcessEvent got its event
    crashes,        \* number of crashes of the analytics service so far
    other,          \* number of messages other producers wrote to the topic
    cancelled,      \* whether main has cancelled the consume loop's context
    running,        \* whether the consume goroutine has not returned
    readErrors,     \* number of read errors the consume loop has logged
    logged,         \* the messages whose handler error KafkaConsumer.Consume logged
    mu,             \* the aggregate's sync.RWMutex
    pc,             \* per goroutine calling the aggregate: how far its call got
    arg,            \* per goroutine in ProcessEvent: the event it was given
    stats,          \* per goroutine in GetStats: the map entries built so far
    returned,       \* the map the last GetStats returned
    history,        \* what GetStats would return after each completed ProcessEvent
    applies,        \* number of ProcessEvent calls started by those goroutines
    completions,        \* per event: the ProcessEvent calls completed on it
    ready,          \* the messages of the RabbitMQ queue that await delivery
    unacked,        \* the deliveries the RabbitMQ consumer has not settled yet
    acked,          \* the ids of the messages acknowledged
    sent,           \* number of messages published to the RabbitMQ queue
    published,      \* the ids of the messages whose Publish returned nil
    verdict,        \* the delivery the handler ran on last, and what it returned
    users,          \* the rows of table users of the auth service, in insertion order
    answer,         \* what the last Register call returned
    entry           \* per worker: the authenticated request it took at an entry point last

vars == <<transactions, now, req, last, tasks, spawned, topic, dropped, counters,
          committed, position, queued, fetched, analytics, handled, crashes,
          other, cancelled, running, readErrors, logged,
          mu, pc, arg, stats, returned, history, applies, completions,
          ready, unacked, acked, sent, published, verdict,
          users, answer, entry>>

store == <<transactions, now>>

emission == <<tasks, spawned, topic, dropped, counters>>

locking == <<mu, pc, arg, stats, returned, history, applies, completions>>

consumer == <<committed, position, queued, fetched, analytics, handled, crashes,
              other, cancelled, running, readErrors, logged, locking>>

rabbit == <<ready, unacked, acked, sent, published, verdict>>

ledger == <<store, req, emission>>

identity == <<users, answer, entry>>

(* ------------------------- the ledger store --------------------------- *)

\* amount DECIMAL(10, 2): a value with more than two decimals is rounded to
\* two (half away from zero) when it is stored. Only positive amounts reach
\* the insert.
Numeric2(amount) == ((amount + 5) \div 10) * 10

RECURSIVE SumAmounts(_, _)
SumAmounts(rows, userID) ==
    IF rows = <<>> THEN 0
    ELSE (IF Head(rows).user_id = userID THEN Head(rows).amount ELSE 0)
         + SumAmounts(Tail(rows), userID)

\* The sum with AND is_paid = false added to its WHERE.
SumUnpaidAmounts(userID) ==
    SumAmounts(SelectSeq(transactions, LAMBDA r : ~r.is_paid), userID)

\* SELECT COALESCE(SUM(amount), 0) FROM transactions WHERE user_id = $1
GetTotalAmountByUserID(userID) == SumAmounts(transactions, userID)

\* The row INSERT ... VALUES ($1, $2, $3, false) RETURNING ... stores and
\* returns: id from the SERIAL sequence, created_at from the clock.
NewRow(userID, amount, description, createdAt) ==
    [id          |-> Len(transactions) + 1,
     user_id     |-> userID,
     amount      |-> Numeric2(amount),
     description |-> description,
     is_paid     |-> FALSE,
     created_at  |-> createdAt]

\* WHERE user_id = $1
RowsOf(rows, userID) == SelectSeq(rows, LAMBDA r : r.user_id = userID)

\* ORDER BY created_at DESC as an insertion sort: r goes before the first
\* row that is strictly older. Rows of equal created_at have no order SQL
\* defines; they come out as the sort leaves them.
RECURSIVE InsertDesc(_, _)
InsertDesc(r, sorted) ==
    IF sorted = <<>> THEN <<r>>
    ELSE IF r.created_at > Head(sorted).created_at THEN <<r>> \o sorted
    ELSE <<Head(sorted)>> \o InsertDesc(r, Tail(sorted))

RECURSIVE OrderByCreatedAtDesc(_)
OrderByCreatedAtDesc(rows) ==
    IF rows = <<>> THEN <<>>
    ELSE InsertDesc(Head(rows), OrderByCreatedAtDesc(Tail(rows)))

\* The query without its ORDER BY: the rows in insertion order, oldest first.
FindByUserIDInsertionOrder(userID) ==
    LET rows == RowsOf(transactions, userID)
    IN  [isNil |-> rows = <<>>, rows |-> rows]

\* FindByUserID: `var transactions []domain.Transaction` stays nil when the
\* query returns no row.
FindByUserID(userID) ==
    LET rows == OrderByCreatedAtDesc(RowsOf(transactions, userID))
    IN  [isNil |-> rows = <<>>, rows |-> rows]

\* The UPDATE without user_id = $1 in its WHERE: every unpaid row is paid.
MarkAllAsPaidEveryUser(rows, userID) ==
    [i \in 1..Len(rows) |-> [rows[i] EXCEPT !.is_paid = TRUE]]

\* An UPDATE that sets is_paid = NOT is_paid on the user's rows.
MarkAllAsPaidToggle(rows, userID) ==
    [i \in 1..Len(rows) |->
        IF rows[i].user_id = userID THEN [rows[i] EXCEPT !.is_paid = ~rows[i].is_paid]
        ELSE rows[i]]

\* UPDATE transactions SET is_paid = true WHERE user_id = $1 AND is_paid = false
MarkAllAsPaid(rows, userID) ==
    [i \in 1..Len(rows) |->
        IF rows[i].user_id = userID /\ ~rows[i].is_paid
        THEN [rows[i] EXCEPT !.is_paid = TRUE]
        ELSE rows[i]]

\* result.RowsAffected() of that UPDATE.
RowsAffected(rows, userID) ==
    Cardinality({i \in 1..Len(rows) : rows[i].user_id = userID /\ ~rows[i].is_paid})

(* ------------------------ requests and responses ---------------------- *)

\* What a store write can do: take effect and answer, fail without effect,
\* or take effect while the caller gets an error (the deadline expires or
\* the connection breaks after the statement committed).
Outcomes == {"ok", "failed", "lost"}

\* A worker that serves no request.
Idle ==
    [pc |-> "idle", via |-> "none", user_id |-> 0, amount |-> 0,
     description |-> "", currentTotal |-> 0, rowsAtRead |-> 0]

\* A nil []domain.Transaction.
NilList == [isNil |-> TRUE, rows |-> <<>>]

\* What a caller gets back. err is the service's error value (callers of the
\* service see it; the HTTP and gRPC surfaces translate it into status and
\* error). current_total and max_allowed are <<>> when absent, else one
\* amount in cents, as "%.2f" prints it. tx is <<>> or one row.
Response(op, via, userID, amount, description) ==
    [op |-> op, via |-> via, user_id |-> userID, amount |-> amount,
     description |-> description, err |-> NoError, status |-> "",
     error |-> "", current_total |-> <<>>, max_allowed |-> <<>>,
     tx |-> <<>>, list |-> NilList, count |-> 0]

\* The step returned nothing to a caller.
NoResponse == Response("none", "none", 0, 0, "")

\* strconv.FormatFloat(f, 'f', 2, 64) and "%.2f": two decimals, in cents.
FormatFloat2(f) == (f + 5) \div 10

\* pb.Transaction built from a domain.Transaction, field by field. int32()
\* of an id or user id is exact below 2^31, which covers every value here.
PbTransaction(tx) ==
    [id |-> tx.id, user_id |-> tx.user_id, amount |-> tx.amount,
     description |-> tx.description, is_paid |-> tx.is_paid,
     created_at |-> tx.created_at]

(* --------------------------- PaymentService --------------------------- *)

\* publisher := kafka.NewPublisher(...): the service is built with one.
PublisherConfigured == TRUE

\* The validations with the user id checked before the amount.
ValidateCreateUserFirst(userID, amount) ==
    IF userID <= 0 THEN ErrInvalidUserID
    ELSE IF amount <= 0 THEN ErrInvalidAmount
    ELSE NoError

\* The two validations that open CreateTransaction, in the code's order.
ValidateCreate(userID, amount) ==
    IF amount <= 0 THEN ErrInvalidAmount
    ELSE IF userID <= 0 THEN ErrInvalidUserID
    ELSE NoError

\* The check with the amount alone, the total read left out.
ExceedsMaximumAmountOnly(currentTotal, amount) == amount > MaxTransactionTotal

\* The check with >= for >: a total of exactly the maximum is refused.
ExceedsMaximumExclusive(currentTotal, amount) == currentTotal + amount >= MaxTransactionTotal

\* if currentTotal+req.Amount > MaxTransactionTotal
ExceedsMaximum(currentTotal, amount) == currentTotal + amount > MaxTransactionTotal

\* if transactions == nil { transactions = []domain.Transaction{} }
EmptyInsteadOfNil(found) ==
    IF found.isNil THEN [isNil |-> FALSE, rows |-> <<>>] ELSE found

\* A created event that names the id after the created transaction's.
TransactionCreatedEventNextID(tx) ==
    [event_type |-> "", transaction_id |-> tx.id + 1, user_id |-> tx.user_id,
     amount |-> tx.amount, description |-> tx.description,
     transactions_paid |-> 0, timestamp |-> 0]

\* The event the goroutine of CreateTransaction builds from createdTx.
TransactionCreatedEvent(tx) ==
    [event_type |-> "", transaction_id |-> tx.id, user_id |-> tx.user_id,
     amount |-> tx.amount, description |-> tx.description,
     transactions_paid |-> 0, timestamp |-> 0]

\* A paid event that counts the call, not the rows it flipped.
TransactionPaidEventPerCall(userID, rowsAffected) ==
    [event_type |-> "", transaction_id |-> 0, user_id |-> userID,
     amount |-> 0, description |-> "",
     transactions_paid |-> 1, timestamp |-> 0]

\* The event the goroutine of PayAllTransactions builds.
TransactionPaidEvent(userID, rowsAffected) ==
    [event_type |-> "", transaction_id |-> 0, user_id |-> userID,
     amount |-> 0, description |-> "",
     transactions_paid |-> rowsAffected, timestamp |-> 0]

\* A pay that starts its goroutine whatever the number of rows it flipped.
ShouldPublishPaidAlways(rowsAffected) == PublisherConfigured

\* if s.publisher != nil && rowsAffected > 0
ShouldPublishPaid(rowsAffected) == PublisherConfigured /\ rowsAffected > 0

\* Two goroutines for one mutation.
SpawnTwice(kind, event) ==
    tasks \cup {[seq |-> spawned + 1, kind |-> kind, event |-> event],
                [seq |-> spawned + 2, kind |-> kind, event |-> event]}

\* go func() { ... }(): one more detached goroutine holding its event.
Spawn(kind, event) == tasks \cup {[seq |-> spawned + 1, kind |-> kind, event |-> event]}

(* ------------------- the HTTP handler and gRPC server ----------------- *)

\* PaymentHandler.CreateTransaction on an error that is not ErrExceedsMaximum.
HandlerCreateError(resp, err) ==
    IF ErrorsIs(err, ErrInvalidAmount)
    THEN [resp EXCEPT !.err = err, !.status = "400", !.error = "amount must be positive"]
    ELSE IF ErrorsIs(err, ErrInvalidUserID)
    THEN [resp EXCEPT !.err = err, !.status = "400", !.error = "invalid user_id"]
    ELSE [resp EXCEPT !.err = err, !.status = "500", !.error = "failed to create transaction"]

\* PaymentHandler.CreateTransaction on ErrExceedsMaximum, with the total its
\* second read returned: ErrorResponse{Error, CurrentTotal, MaxAllowed}.
HandlerExceedsResponse(resp, err, currentTotal) ==
    [resp EXCEPT !.err = err, !.status = "400",
                 !.error = "total amount exceeds maximum of 1000",
                 !.current_total = <<FormatFloat2(currentTotal)>>,
                 !.max_allowed = <<100000>>]

\* PaymentServer.CreateTransaction on an error of the service: it compares
\* the error values with ==.
GrpcCreateError(resp, err) ==
    IF ErrorsEq(err, ErrInvalidAmount)
    THEN [resp EXCEPT !.err = err, !.status = "InvalidArgument", !.error = "amount must be positive"]
    ELSE IF ErrorsEq(err, ErrInvalidUserID)
    THEN [resp EXCEPT !.err = err, !.status = "InvalidArgument", !.error = "invalid user_id"]
    ELSE IF ErrorsEq(err, ErrExceedsMaximum)
    THEN [resp EXCEPT !.err = err, !.status = "FailedPrecondition",
                      !.error = "total amount exceeds maximum of 1000"]
    ELSE [resp EXCEPT !.err = err, !.status = "Internal", !.error = "failed to create transaction"]

\* What a direct caller of PaymentService.CreateTransaction gets: the error
\* value; the ErrExceedsMaximum message names the total read and the maximum.
ServiceCreateError(resp, err, currentTotal) ==
    IF ErrorsIs(err, ErrExceedsMaximum)
    THEN [resp EXCEPT !.err = err,
                      !.current_total = <<FormatFloat2(currentTotal)>>,
                      !.max_allowed = <<FormatFloat2(MaxTransactionTotal)>>]
    ELSE [resp EXCEPT !.err = err]

\* The failure of a create as the surface the request came through reports it
\* (the handler's ErrExceedsMaximum branch is CreateTransactionReportTotal).
CreateError(resp, err, currentTotal) ==
    IF resp.via = "http" THEN HandlerCreateError(resp, err)
    ELSE IF resp.via = "grpc" THEN GrpcCreateError(resp, err)
    ELSE ServiceCreateError(resp, err, currentTotal)

\* The created transaction as the surface returns it.
CreateSuccess(resp, tx) ==
    IF resp.via = "http" THEN [resp EXCEPT !.status = "201", !.tx = <<tx>>]
    ELSE IF resp.via = "grpc" THEN [resp EXCEPT !.status = "OK", !.tx = <<PbTransaction(tx)>>]
    ELSE [resp EXCEPT !.tx = <<tx>>]

\* The response of the create request worker w is serving.
ResponseOf(w) ==
    Response("create", req[w].via, req[w].user_id, req[w].amount, req[w].description)

\* Creates that passed validation and have not finished.
InFlight == {w \in Workers : req[w].pc \in {"total", "insert"}}

(* ----------------------------- CreateTransaction ---------------------- *)

\* A create request arrives at worker w. The surface decodes and (gRPC)
\* checks it, then the service validates amount and user id; a request that
\* passes goes on to read the total.
CreateTransactionBegin(w, via, userID, amount, description, decodeOk) ==
    /\ req[w].pc = "idle"
    /\ LET resp == Response("create", via, userID, amount, description)
           err  == ValidateCreate(userID, amount)
       IN  IF via = "http" /\ ~decodeOk
           THEN /\ last' = [resp EXCEPT !.status = "400", !.error = "invalid request body"]
                /\ UNCHANGED req
           ELSE IF via = "grpc" /\ userID <= 0
           THEN /\ last' = [resp EXCEPT !.status = "InvalidArgument", !.error = "invalid user_id"]
                /\ UNCHANGED req
           ELSE IF via = "grpc" /\ amount <= 0
           THEN /\ last' = [resp EXCEPT !.status = "InvalidArgument",
                                        !.error = "amount must be positive"]
                /\ UNCHANGED req
           ELSE IF err # NoError
           THEN /\ last' = CreateError(resp, err, 0)
                /\ UNCHANGED req
           ELSE /\ \/ Len(transactions) + Cardinality(InFlight) < MaxTransactions
                   \/ ExceedsMaximum(GetTotalAmountByUserID(userID), amount)
                /\ req' = [req EXCEPT ![w] =
                              [pc |-> "total", via |-> via, user_id |-> userID,
                               amount |-> amount, description |-> description,
                               currentTotal |-> 0, rowsAtRead |-> 0]]
                /\ last' = NoResponse
    /\ UNCHANGED <<store, emission>>

\* The rejection placed after the insert: the row is stored, then the
\* request fails.
RejectExceedsMaximumAfterInsert(w, total) ==
    /\ last' = CreateError(ResponseOf(w), Wrap(ErrExceedsMaximum), total)
    /\ req' = [req EXCEPT ![w] = Idle]
    /\ transactions' = Append(transactions,
           NewRow(req[w].user_id, req[w].amount, req[w].description, now))
    /\ UNCHANGED <<now, emission>>

\* return nil, fmt.Errorf("%w: current total ...", ErrExceedsMaximum, ...):
\* the request ends without a store write. The HTTP handler still has its
\* second read to do before it answers.
RejectExceedsMaximum(w, total) ==
    /\ IF req[w].via = "http"
       THEN /\ req' = [req EXCEPT ![w].pc = "report", ![w].currentTotal = total]
            /\ last' = NoResponse
       ELSE /\ last' = CreateError(ResponseOf(w), Wrap(ErrExceedsMaximum), total)
            /\ req' = [req EXCEPT ![w] = Idle]
    /\ UNCHANGED <<store, emission>>

\* s.txRepo.GetTotalAmountByUserID and the check against the maximum. ok is
\* whether the store answered.
CreateTransactionReadTotal(w, ok) ==
    /\ req[w].pc = "total"
    /\ LET total == GetTotalAmountByUserID(req[w].user_id)
       IN  IF ~ok
           THEN /\ last' = CreateError(ResponseOf(w), Wrap(ErrStore), 0)
                /\ req' = [req EXCEPT ![w] = Idle]
                /\ UNCHANGED <<store, emission>>
           ELSE IF ExceedsMaximum(total, req[w].amount)
           THEN RejectExceedsMaximum(w, total)
           ELSE /\ req' = [req EXCEPT ![w].pc = "insert", ![w].currentTotal = total,
                                      ![w].rowsAtRead =
                                          Len(RowsOf(transactions, req[w].user_id))]
                /\ last' = NoResponse
                /\ UNCHANGED <<store, emission>>

\* s.txRepo.Create, the goroutine that will publish the event, and the
\* return of the created transaction. outcome is what the store write did
\* (Outcomes); tick is whether the database clock moved on since the last
\* insert.
CreateTransactionInsert(w, outcome, tick) ==
    /\ req[w].pc = "insert"
    /\ IF outcome = "failed"
       THEN /\ last' = CreateError(ResponseOf(w), Wrap(ErrStore), 0)
            /\ UNCHANGED <<store, emission>>
       ELSE IF outcome = "lost"
       THEN /\ transactions' = Append(transactions,
                   NewRow(req[w].user_id, req[w].amount, req[w].description, now + tick))
            /\ now' = now + tick
            /\ last' = CreateError(ResponseOf(w), Wrap(ErrStore), 0)
            /\ UNCHANGED emission
       ELSE LET tx == NewRow(req[w].user_id, req[w].amount, req[w].description, now + tick)
            IN  /\ transactions' = Append(transactions, tx)
                /\ now' = now + tick
                /\ IF PublisherConfigured
                   THEN /\ tasks' = Spawn("created", TransactionCreatedEvent(tx))
                        /\ spawned' = spawned + 1
                   ELSE UNCHANGED <<tasks, spawned>>
                /\ UNCHANGED <<topic, dropped, counters>>
                /\ last' = CreateSuccess(ResponseOf(w), tx)
    /\ req' = [req EXCEPT ![w] = Idle]

\* The handler's ErrExceedsMaximum branch: currentTotal, _ := GetCurrentTotal,
\* a second read whose error is discarded (the total is then 0).
CreateTransactionReportTotal(w, ok) ==
    /\ req[w].pc = "report"
    /\ LET currentTotal == IF ok THEN GetTotalAmountByUserID(req[w].user_id) ELSE 0
       IN  last' = HandlerExceedsResponse(ResponseOf(w), Wrap(ErrExceedsMaximum), currentTotal)
    /\ req' = [req EXCEPT ![w] = Idle]
    /\ UNCHANGED <<store, emission>>

(* ------------------------------ GetTransactions ----------------------- *)

\* PaymentService.GetTransactions: (transactions, err).
ServiceGetTransactions(userID, ok) ==
    IF userID <= 0 THEN [err |-> ErrInvalidUserID, list |-> NilList]
    ELSE IF ~ok THEN [err |-> Wrap(ErrStore), list |-> NilList]
    ELSE [err |-> NoError, list |-> EmptyInsteadOfNil(FindByUserID(userID))]

\* pbTransactions := make([]*pb.Transaction, len(transactions)) and its loop.
PbTransactionList(list) ==
    [isNil |-> FALSE, rows |-> [i \in 1..Len(list.rows) |-> PbTransaction(list.rows[i])]]

\* The user_id query parameter of the handler's list and pay routes: absent,
\* not a number (strconv.Atoi fails), or the number userID.
QueryKinds == {"missing", "garbage", "int"}

\* The handler's answer to a bad user_id query parameter.
HandlerQueryError(resp, query) ==
    IF query = "missing"
    THEN [resp EXCEPT !.status = "400", !.error = "user_id query parameter required"]
    ELSE [resp EXCEPT !.status = "400", !.error = "invalid user_id"]

\* The answer to a list request, as the surface it came through gives it.
ListResponse(via, userID, query, ok) ==
    LET resp == Response("list", via, userID, 0, "")
        got  == ServiceGetTransactions(userID, ok)
    IN  IF via = "http" /\ query # "int" THEN HandlerQueryError(resp, query)
        ELSE IF via = "http"
        THEN IF got.err = NoError
             THEN [resp EXCEPT !.status = "200", !.list = got.list]
             ELSE IF ErrorsIs(got.err, ErrInvalidUserID)
             THEN [resp EXCEPT !.err = got.err, !.status = "400", !.error = "invalid user_id"]
             ELSE [resp EXCEPT !.err = got.err, !.status = "500",
                               !.error = "failed to get transactions"]
        ELSE IF via = "grpc"
        THEN IF userID <= 0
             THEN [resp EXCEPT !.status = "InvalidArgument", !.error = "invalid user_id"]
             ELSE IF got.err # NoError
             THEN [resp EXCEPT !.err = got.err, !.status = "Internal",
                               !.error = "failed to get transactions"]
             ELSE [resp EXCEPT !.status = "OK", !.list = PbTransactionList(got.list)]
        ELSE [resp EXCEPT !.err = got.err, !.list = got.list]

\* A list that calls MarkAllAsPaid on its way: the read path writes.
GetTransactionsAndPay(w, via, userID, query, ok) ==
    /\ req[w].pc = "idle"
    /\ last' = ListResponse(via, userID, query, ok)
    /\ transactions' = MarkAllAsPaid(transactions, userID)
    /\ UNCHANGED <<now, req, emission>>

\* A list request, served in one store operation (a SELECT).
GetTransactions(w, via, userID, query, ok) ==
    /\ req[w].pc = "idle"
    /\ last' = ListResponse(via, userID, query, ok)
    /\ UNCHANGED <<store, req, emission>>

(* ----------------------------- PayAllTransactions --------------------- *)

\* A pay request, served in one store operation. reaches is whether the
\* request gets as far as the service's MarkAllAsPaid.
PayAllTransactions(w, via, userID, query, outcome) ==
    /\ req[w].pc = "idle"
    /\ LET resp    == Response("pay", via, userID, 0, "")
           reaches == userID > 0 /\ (via = "http" => query = "int")
           applied == reaches /\ outcome # "failed"
           rowsAffected == RowsAffected(transactions, userID)
           err == IF userID <= 0 THEN ErrInvalidUserID
                  ELSE IF outcome # "ok" THEN Wrap(ErrStore)
                  ELSE NoError
       IN  /\ transactions' = IF applied THEN MarkAllAsPaid(transactions, userID)
                                         ELSE transactions
           /\ IF reaches /\ outcome = "ok" /\ ShouldPublishPaid(rowsAffected)
              THEN /\ tasks' = Spawn("paid", TransactionPaidEvent(userID, rowsAffected))
                   /\ spawned' = spawned + 1
              ELSE UNCHANGED <<tasks, spawned>>
           /\ last' =
                IF via = "http" /\ query # "int" THEN HandlerQueryError(resp, query)
                ELSE IF via = "http"
                THEN IF err = NoError
                     THEN [resp EXCEPT !.status = "200", !.count = rowsAffected]
                     ELSE IF ErrorsIs(err, ErrInvalidUserID)
                     THEN [resp EXCEPT !.err = err, !.status = "400", !.error = "invalid user_id"]
                     ELSE [resp EXCEPT !.err = err, !.status = "500",
                                       !.error = "failed to pay transactions"]
                ELSE IF via = "grpc"
                THEN IF userID <= 0
                     THEN [resp EXCEPT !.status = "InvalidArgument", !.error = "invalid user_id"]
                     ELSE IF err # NoError
                     THEN [resp EXCEPT !.err = err, !.status = "Internal",
                                       !.error = "failed to pay transactions"]
                     ELSE [resp EXCEPT !.status = "OK", !.count = rowsAffected]
                ELSE IF err = NoError THEN [resp EXCEPT !.count = rowsAffected]
                ELSE [resp EXCEPT !.err = err]
    /\ UNCHANGED <<now, req, topic, dropped, counters>>

(* ------------------------------ event emission ------------------------ *)

\* The partitions of the transactions topic. The topic is created on the
\* broker; the writer learns its partitions from the broker's metadata.
Partitions == {0, 1}

\* What WriteMessages can do: write the message, fail before a partition was
\* chosen (no metadata), or fail after the balancer chose one.
PublishOutcomes == {"written", "unreachable", "failed"}

\* len(msg.Key) + len(msg.Value), in units: the JSON of a created event is
\* longer than that of a paid event.
MessageBytes(eventType) == IF eventType = "transaction.created" THEN 3 ELSE 2

\* Balancer: &kafka.LeastBytes{}: the partition that has been sent the
\* fewest bytes, the first one among equals; the key plays no part.
LeastBytes(key, bytes) ==
    CHOOSE p \in Partitions :
        \A q \in Partitions : bytes[p] < bytes[q] \/ (bytes[p] = bytes[q] /\ p <= q)

\* A publish that undoes the newest stored transaction when its write fails.
PublishOrUndo(t, eventType, outcome) ==
    /\ t \in tasks
    /\ tasks' = tasks \ {t}
    /\ IF outcome = "written"
       THEN /\ topic' = Append(topic, [key |-> ToString(t.event.user_id), value |-> t.event,
                                       partition |-> 0, seq |-> t.seq])
            /\ UNCHANGED <<dropped, transactions>>
       ELSE /\ dropped' = dropped \cup {[seq |-> t.seq, kind |-> t.kind]}
            /\ transactions' = SubSeq(transactions, 1, Len(transactions) - 1)
            /\ UNCHANGED topic
    /\ last' = NoResponse
    /\ UNCHANGED <<now, req, spawned, counters>>

\* A publish that waits for the goroutines started before it.
PublishInOrder(t, eventType, outcome) ==
    /\ t \in tasks
    /\ \A o \in tasks : t.seq <= o.seq
    /\ tasks' = tasks \ {t}
    /\ LET event     == [t.event EXCEPT !.event_type = eventType, !.timestamp = now]
           key       == ToString(event.user_id)
           partition == LeastBytes(key, counters)
       IN  /\ counters' = IF outcome = "unreachable" THEN counters
                          ELSE [counters EXCEPT ![partition] = @ + MessageBytes(eventType)]
           /\ IF outcome = "written"
              THEN /\ topic' = Append(topic, [key |-> key, value |-> event,
                                              partition |-> partition, seq |-> t.seq])
                   /\ UNCHANGED dropped
              ELSE /\ dropped' = dropped \cup {[seq |-> t.seq, kind |-> t.kind]}
                   /\ UNCHANGED topic
    /\ last' = NoResponse
    /\ UNCHANGED <<store, req, spawned>>

\* Publisher.PublishTransactionCreated / PublishTransactionPaid, run by a
\* detached goroutine: stamp the event, marshal it, write it keyed by
\* strconv.Itoa(event.UserID). A failed write is logged and nothing more.
\* seq names the goroutine that wrote the message; it is not on the wire.
Publish(t, eventType, outcome) ==
    /\ t \in tasks
    /\ tasks' = tasks \ {t}
    /\ LET event     == [t.event EXCEPT !.event_type = eventType, !.timestamp = now]
           key       == ToString(event.user_id)
           partition == LeastBytes(key, counters)
       IN  /\ counters' = IF outcome = "unreachable" THEN counters
                          ELSE [counters EXCEPT ![partition] = @ + MessageBytes(eventType)]
           /\ IF outcome = "written"
              THEN /\ topic' = Append(topic, [key |-> key, value |-> event,
                                              partition |-> partition, seq |-> t.seq])
                   /\ UNCHANGED dropped
              ELSE /\ dropped' = dropped \cup {[seq |-> t.seq, kind |-> t.kind]}
                   /\ UNCHANGED topic
    /\ last' = NoResponse
    /\ UNCHANGED <<store, req, spawned>>

PublishTransactionCreated(t, outcome) ==
    /\ t.kind = "created"
    /\ Publish(t, "transaction.created", outcome)

PublishTransactionPaid(t, outcome) ==
    /\ t.kind = "paid"
    /\ Publish(t, "transaction.paid", outcome)

(* ------------------------- the analytics service --------------------- *)

\* The crashes of the analytics service in a behaviour at most.
MaxCrashes == 1

\* NewAnalytics(): all counters zero, both maps empty.
NewAnalytics ==
    [total_transactions |-> 0, total_amount |-> 0, total_paid_transactions |-> 0,
     events_processed |-> 0, last_event_time |-> <<>>,
     transactions_by_user |-> <<>>, amount_by_user |-> <<>>]

\* A map update that keeps the updated key alone.
MapAddAlone(m, k, n) ==
    IF k \in DOMAIN m THEN (k :> m[k] + n) ELSE (k :> n)

\* m[k] += n on a Go map: a missing key counts as zero.
MapAdd(m, k, n) ==
    IF k \in DOMAIN m THEN [m EXCEPT ![k] = @ + n] ELSE m @@ (k :> n)

\* The statements of Analytics.ProcessEvent between a.mu.Lock() and the
\* deferred a.mu.Unlock(), in the order they run, the two map updates as one.
Statements == 4

\* Statements that skip a created event of a user the aggregate knows.
StatementFirstPerUser(k, a, event) ==
    IF k = 1
    THEN [a EXCEPT !.events_processed = @ + 1,
                   !.last_event_time = <<event.timestamp>>]
    ELSE IF event.event_type = "transaction.created"
    THEN IF event.user_id \in DOMAIN a.transactions_by_user
         THEN a
         ELSE CASE k = 2 -> [a EXCEPT !.total_transactions = @ + 1]
                [] k = 3 -> [a EXCEPT !.total_amount = @ + event.amount]
                [] OTHER -> [a EXCEPT
                               !.transactions_by_user = MapAdd(@, event.user_id, 1),
                               !.amount_by_user = MapAdd(@, event.user_id, event.amount)]
    ELSE IF event.event_type = "transaction.paid" /\ k = 2
    THEN [a EXCEPT !.total_paid_transactions = @ + event.transactions_paid]
    ELSE a

\* The k-th of them, on the aggregate a:
\*   1  a.EventsProcessed++ and a.LastEventTime = event.Timestamp.Format(...)
\*   2  a.TotalTransactions++, or a.TotalPaidTransactions += event.TransactionsPaid
\*   3  a.TotalAmount += event.Amount
\*   4  a.TransactionsByUser[event.UserID]++ and a.AmountByUser[event.UserID] += ...
\* An event type the switch has no case for runs the first one only.
Statement(k, a, event) ==
    IF k = 1
    THEN [a EXCEPT !.events_processed = @ + 1,
                   !.last_event_time = <<event.timestamp>>]
    ELSE IF event.event_type = "transaction.created"
    THEN CASE k = 2 -> [a EXCEPT !.total_transactions = @ + 1]
           [] k = 3 -> [a EXCEPT !.total_amount = @ + event.amount]
           [] OTHER -> [a EXCEPT
                          !.transactions_by_user = MapAdd(@, event.user_id, 1),
                          !.amount_by_user = MapAdd(@, event.user_id, event.amount)]
    ELSE IF event.event_type = "transaction.paid" /\ k = 2
    THEN [a EXCEPT !.total_paid_transactions = @ + event.transactions_paid]
    ELSE a

\* A ProcessEvent whose paid case also counts a transaction.
ProcessEventPaidCounts(a, event) ==
    LET counted == [a EXCEPT !.events_processed = @ + 1,
                             !.last_event_time = <<event.timestamp>>]
    IN  IF event.event_type = "transaction.created"
        THEN [counted EXCEPT
                !.total_transactions = @ + 1,
                !.total_amount = @ + event.amount,
                !.transactions_by_user = MapAdd(@, event.user_id, 1),
                !.amount_by_user = MapAdd(@, event.user_id, event.amount)]
        ELSE IF event.event_type = "transaction.paid"
        THEN [counted EXCEPT !.total_paid_transactions = @ + event.transactions_paid,
                             !.total_transactions = @ + 1]
        ELSE counted

\* A ProcessEvent whose paid case takes the paid transactions off the count.
ProcessEventPaidSettles(a, event) ==
    LET counted == [a EXCEPT !.events_processed = @ + 1,
                             !.last_event_time = <<event.timestamp>>]
    IN  IF event.event_type = "transaction.created"
        THEN [counted EXCEPT
                !.total_transactions = @ + 1,
                !.total_amount = @ + event.amount,
                !.transactions_by_user = MapAdd(@, event.user_id, 1),
                !.amount_by_user = MapAdd(@, event.user_id, event.amount)]
        ELSE IF event.event_type = "transaction.paid"
        THEN [counted EXCEPT !.total_paid_transactions = @ + event.transactions_paid,
                             !.total_transactions = @ - event.transactions_paid]
        ELSE counted

\* A ProcessEvent that takes every event it has no case for as a creation.
ProcessEventDefaultCreated(a, event) ==
    LET counted == [a EXCEPT !.events_processed = @ + 1,
                             !.last_event_time = <<event.timestamp>>]
    IN  IF event.event_type = "transaction.paid"
        THEN [counted EXCEPT !.total_paid_transactions = @ + event.transactions_paid]
        ELSE [counted EXCEPT
                !.total_transactions = @ + 1,
                !.total_amount = @ + event.amount,
                !.transactions_by_user = MapAdd(@, event.user_id, 1),
                !.amount_by_user = MapAdd(@, event.user_id, event.amount)]

\* Analytics.ProcessEvent, under a.mu: all its statements.
ProcessEvent(a, event) ==
    Statement(4, Statement(3, Statement(2, Statement(1, a, event), event), event), event)

\* Analytics.GetStats, under a.mu.RLock(): the map it returns.
GetStats(a) ==
    [total_transactions |-> a.total_transactions,
     total_amount |-> a.total_amount,
     total_paid_transactions |-> a.total_paid_transactions,
     events_processed |-> a.events_processed,
     last_event_time |-> a.last_event_time,
     unique_users |-> Cardinality(DOMAIN a.transactions_by_user)]

\* The fields of the JSON object a TransactionEvent decodes from.
EnvelopeFields ==
    {"event_type", "transaction_id", "user_id", "amount", "description",
     "transactions_paid", "timestamp"}

\* A payload that is not the JSON of an object.
NotJSON == [raw |-> "{"]

\* An envelope of another producer, with an event type this service has no
\* case for.
RefundedEvent ==
    [event_type |-> "transaction.refunded", transaction_id |-> 9, user_id |-> 2,
     amount |-> 5000, description |-> "refund", transactions_paid |-> 1,
     timestamp |-> 7]

\* The err of json.Unmarshal(msg.Value, &event): non-nil for a payload that
\* is not a JSON object.
UnmarshalError(value) == DOMAIN value # EnvelopeFields

\* json.Unmarshal(msg.Value, &event) into a TransactionEvent: the fields the
\* JSON names, the others zero. The publisher's created event has no
\* transactions_paid, its paid event no transaction_id, amount or description.
Unmarshal(value) ==
    [event_type |-> value.event_type,
     transaction_id |-> IF value.event_type = "transaction.paid"
                        THEN 0 ELSE value.transaction_id,
     user_id |-> value.user_id,
     amount |-> IF value.event_type = "transaction.paid" THEN 0 ELSE value.amount,
     description |-> IF value.event_type = "transaction.paid"
                     THEN "" ELSE value.description,
     transactions_paid |-> IF value.event_type = "transaction.created"
                           THEN 0 ELSE value.transactions_paid,
     timestamp |-> value.timestamp]

\* The log of one partition of the topic.
PartitionLog(p) == SelectSeq(topic, LAMBDA m : m.partition = p)

\* The messages of other producers in a behaviour at most.
MaxOther == 2

\* Another producer writes to the topic the reader is subscribed to: an
\* envelope of an unknown event type, or bytes that are no JSON. Its
\* messages are numbered below zero to tell them from the publisher's.
ProduceOther(p, value) ==
    /\ other < MaxOther
    /\ other' = other + 1
    /\ topic' = Append(topic, [key |-> "2", value |-> value, partition |-> p,
                               seq |-> 0 - (other + 1)])
    /\ last' = NoResponse
    /\ UNCHANGED <<store, req, tasks, spawned, dropped, counters, rabbit, identity, locking,
                   committed, position, queued, fetched, analytics, handled, crashes,
                   cancelled, running, readErrors, logged>>

\* reader.ReadMessage with a GroupID set: the offset of the message it
\* returns goes to the commit loop as part of the call.
QueuedOnRead(p, offset) == offset

\* msg, err := reader.ReadMessage(ctx) returning the next message of a
\* partition. The reader selects between ctx.Done() and its buffer of
\* fetched messages, so a cancelled context does not keep it from returning
\* a message that is buffered. The message records whether the context was
\* cancelled when it was read.
ReadMessage(p) ==
    /\ running
    /\ fetched = <<>>
    /\ position[p] < Len(PartitionLog(p))
    /\ fetched' = <<[partition |-> p, offset |-> position[p] + 1,
                     message |-> PartitionLog(p)[position[p] + 1],
                     cancelled |-> cancelled]>>
    /\ position' = [position EXCEPT ![p] = @ + 1]
    /\ queued' = [queued EXCEPT ![p] = QueuedOnRead(p, position[p] + 1)]
    /\ last' = NoResponse
    /\ UNCHANGED <<ledger, rabbit, identity, locking, committed, analytics, handled, crashes,
                   other, cancelled, running, readErrors, logged>>

\* The read errors logged in a behaviour at most.
MaxReadErrors == 1

\* reader.ReadMessage(ctx) returning an error: the goroutine returns when
\* ctx.Err() != nil, and logs the error and reads again otherwise.
ReadMessageError ==
    /\ running
    /\ fetched = <<>>
    /\ IF cancelled
       THEN /\ running' = FALSE
            /\ UNCHANGED readErrors
       ELSE /\ readErrors < MaxReadErrors
            /\ readErrors' = readErrors + 1
            /\ UNCHANGED running
    /\ last' = NoResponse
    /\ UNCHANGED <<ledger, rabbit, identity, locking, committed, position, queued, fetched,
                   analytics, handled, crashes, other, cancelled, logged>>

\* main on SIGINT or SIGTERM: cancel().
Shutdown ==
    /\ ~cancelled
    /\ cancelled' = TRUE
    /\ last' = NoResponse
    /\ UNCHANGED <<ledger, rabbit, identity, locking, committed, position, queued, fetched,
                   analytics, handled, crashes, other, running, readErrors, logged>>

\* The reader's commit loop, every CommitInterval: the queued offset of a
\* partition becomes the group's committed offset.
CommitOffsets(p) ==
    /\ queued[p] > committed[p]
    /\ committed' = [committed EXCEPT ![p] = queued[p]]
    /\ last' = NoResponse
    /\ UNCHANGED <<ledger, rabbit, identity, locking, position, queued, fetched, analytics,
                   handled, crashes, other, cancelled, running, readErrors, logged>>

\* A loop body that counts a payload it cannot decode as an event processed.
DecodeAndProcessCountingErrors(a, value) ==
    IF UnmarshalError(value)
    THEN [a EXCEPT !.events_processed = @ + 1]
    ELSE ProcessEvent(a, Unmarshal(value))

\* The aggregate after the loop body ran on a payload: a decode error is
\* logged and the loop continues, else the event is processed.
DecodeAndProcess(a, value) ==
    IF UnmarshalError(value) THEN a ELSE ProcessEvent(a, Unmarshal(value))

\* The rest of the loop body: unmarshal the value and process the event.
HandleMessage ==
    /\ running
    /\ fetched # <<>>
    /\ LET value == fetched[1].message.value
           seq   == fetched[1].message.seq
       IN  /\ analytics' = DecodeAndProcess(analytics, value)
           /\ handled' = IF UnmarshalError(value) THEN handled
                         ELSE MapAdd(handled, seq, 1)
    /\ fetched' = <<>>
    /\ last' = NoResponse
    /\ UNCHANGED <<ledger, rabbit, identity, locking, committed, position, queued, crashes,
                   other, cancelled, running, readErrors, logged>>

\* A loop body that seeks back to a message whose handler failed.
ConsumeHandleRetry(handlerOk) ==
    /\ running
    /\ fetched # <<>>
    /\ handled' = MapAdd(handled, fetched[1].message.seq, 1)
    /\ logged' = IF handlerOk THEN logged ELSE logged \cup {fetched[1].message.seq}
    /\ position' = IF handlerOk THEN position
                   ELSE [position EXCEPT ![fetched[1].partition] = @ - 1]
    /\ fetched' = <<>>
    /\ last' = NoResponse
    /\ UNCHANGED <<ledger, rabbit, identity, locking, committed, queued, analytics,
                   crashes, other, cancelled, running, readErrors>>

\* KafkaConsumer.Consume, the rest of its loop body: the handler runs on
\* the message read; an error it returns is logged and the loop goes on to
\* the next read. handled counts the runs of the handler per message.
ConsumeHandle(handlerOk) ==
    /\ running
    /\ fetched # <<>>
    /\ handled' = MapAdd(handled, fetched[1].message.seq, 1)
    /\ logged' = IF handlerOk THEN logged ELSE logged \cup {fetched[1].message.seq}
    /\ fetched' = <<>>
    /\ last' = NoResponse
    /\ UNCHANGED <<ledger, rabbit, identity, locking, committed, position, queued, analytics,
                   crashes, other, cancelled, running, readErrors>>

\* The analytics process dies and is started again: main builds a new
\* aggregate, a new context and a new reader, which resumes at the
\* committed offsets.
CrashAndRestart ==
    /\ crashes < MaxCrashes
    /\ crashes' = crashes + 1
    /\ analytics' = NewAnalytics
    /\ fetched' = <<>>
    /\ position' = committed
    /\ queued' = committed
    /\ cancelled' = FALSE
    /\ running' = TRUE
    /\ last' = NoResponse
    /\ UNCHANGED <<ledger, rabbit, identity, locking, committed, handled, other, readErrors, logged>>

\* The consume loop of the analytics service and what can befall it.
Consumer ==
    \/ \E p \in Partitions : ReadMessage(p)
    \/ \E p \in Partitions : CommitOffsets(p)
    \/ HandleMessage
    \/ CrashAndRestart

(* ----------------- the aggregate and its goroutines ------------------- *)

\* The ProcessEvent calls of those goroutines in a behaviour at most.
MaxApplies == 3

\* Goroutines that call ProcessEvent, and goroutines of the HTTP server
\* that call GetStats.
Appliers == {"a1", "a2"}

Readers == {"r1"}

\* The events those ProcessEvent calls are given: creations of two users
\* and a payment.
AppliedEvents ==
    {[event_type |-> "transaction.created", transaction_id |-> 1, user_id |-> 1,
      amount |-> 400000, description |-> "rent", transactions_paid |-> 0,
      timestamp |-> 1],
     [event_type |-> "transaction.created", transaction_id |-> 2, user_id |-> 2,
      amount |-> 300000, description |-> "rent", transactions_paid |-> 0,
      timestamp |-> 2],
     [event_type |-> "transaction.paid", transaction_id |-> 0, user_id |-> 1,
      amount |-> 0, description |-> "", transactions_paid |-> 1,
      timestamp |-> 3]}

\* The keys of the map GetStats returns, in the order its literal reads the
\* fields of the aggregate.
StatsKeys ==
    <<"total_transactions", "total_amount", "total_paid_transactions",
      "events_processed", "last_event_time", "unique_users">>

\* sync.RWMutex: Lock() returns when no goroutine holds the mutex.
CanLock(m) == m = "unlocked"

\* An RLock() that does not wait for the writer.
CanRLockAlways(m) == TRUE

\* sync.RWMutex: RLock() returns when no writer holds the mutex. One reader
\* at a time is modelled.
CanRLock(m) == m = "unlocked"

\* ProcessEvent is called with an event: a.mu.Lock().
ProcessEventLock(t, event) ==
    /\ applies < MaxApplies
    /\ pc[t] = 0
    /\ CanLock(mu)
    /\ mu' = "locked"
    /\ pc' = [pc EXCEPT ![t] = 1]
    /\ arg' = [arg EXCEPT ![t] = <<event>>]
    /\ applies' = applies + 1
    /\ last' = NoResponse
    /\ UNCHANGED <<ledger, rabbit, identity, committed, position, queued, fetched, analytics,
                   handled, crashes, other, cancelled, running, readErrors, logged,
                   stats, returned, history, completions>>

\* The next statement of ProcessEvent.
ProcessEventStatement(t) ==
    /\ pc[t] \in 1..Statements
    /\ analytics' = Statement(pc[t], analytics, arg[t][1])
    /\ pc' = [pc EXCEPT ![t] = @ + 1]
    /\ last' = NoResponse
    /\ UNCHANGED <<ledger, rabbit, identity, committed, position, queued, fetched,
                   handled, crashes, other, cancelled, running, readErrors, logged,
                   mu, arg, stats, returned, history, applies, completions>>

\* ProcessEvent returns: the deferred a.mu.Unlock().
ProcessEventUnlock(t) ==
    /\ pc[t] = Statements + 1
    /\ mu' = "unlocked"
    /\ pc' = [pc EXCEPT ![t] = 0]
    /\ arg' = [arg EXCEPT ![t] = <<>>]
    /\ history' = history \cup {GetStats(analytics)}
    /\ completions' = [completions EXCEPT ![arg[t][1]] = @ + 1]
    /\ last' = NoResponse
    /\ UNCHANGED <<ledger, rabbit, identity, committed, position, queued, fetched, analytics,
                   handled, crashes, other, cancelled, running, readErrors, logged,
                   stats, returned, applies>>

\* GetStats is called: a.mu.RLock().
GetStatsRLock(t) ==
    /\ pc[t] = 0
    /\ CanRLock(mu)
    /\ mu' = "rlocked"
    /\ pc' = [pc EXCEPT ![t] = 1]
    /\ returned' = <<>>
    /\ last' = NoResponse
    /\ UNCHANGED <<ledger, rabbit, identity, committed, position, queued, fetched, analytics,
                   handled, crashes, other, cancelled, running, readErrors, logged,
                   arg, stats, history, applies, completions>>

\* The next entry of the map literal: one field of the aggregate is read.
GetStatsRead(t) ==
    /\ pc[t] \in 1..Len(StatsKeys)
    /\ LET key == StatsKeys[pc[t]]
       IN  stats' = [stats EXCEPT ![t] = @ @@ (key :> GetStats(analytics)[key])]
    /\ pc' = [pc EXCEPT ![t] = @ + 1]
    /\ last' = NoResponse
    /\ UNCHANGED <<ledger, rabbit, identity, committed, position, queued, fetched, analytics,
                   handled, crashes, other, cancelled, running, readErrors, logged,
                   mu, arg, returned, history, applies, completions>>

\* GetStats returns the map: the deferred a.mu.RUnlock().
GetStatsReturn(t) ==
    /\ pc[t] = Len(StatsKeys) + 1
    /\ mu' = "unlocked"
    /\ pc' = [pc EXCEPT ![t] = 0]
    /\ returned' = <<stats[t]>>
    /\ stats' = [stats EXCEPT ![t] = <<>>]
    /\ last' = NoResponse
    /\ UNCHANGED <<ledger, rabbit, identity, committed, position, queued, fetched, analytics,
                   handled, crashes, other, cancelled, running, readErrors, logged,
                   arg, history, applies, completions>>

(* --------------------------- the RabbitMQ queue ----------------------- *)

\* The messages published to the queue in a behaviour at most.
MaxMessages == 3

\* What a call of RabbitMQ.Publish can come to. The channel is not in
\* confirm mode, so PublishWithContext returns nil once the frame is handed
\* to the connection: the broker may store the message ("stored") or never
\* get or keep it ("unconfirmed"). "error" is a marshal or write error.
RabbitOutcomes == {"stored", "unconfirmed", "error"}

\* RabbitMQ.Publish to the queue. poison tells that the consumer's handler
\* returns an error for this message on every delivery.
RabbitPublish(poison, outcome) ==
    /\ sent < MaxMessages
    /\ sent' = sent + 1
    /\ ready' = IF outcome = "stored"
                THEN Append(ready, [id |-> sent + 1, poison |-> poison,
                                    redelivered |-> FALSE])
                ELSE ready
    /\ published' = IF outcome = "error" THEN published ELSE published \cup {sent + 1}
    /\ last' = NoResponse
    /\ UNCHANGED <<ledger, consumer, identity, unacked, acked, verdict>>

\* The broker pushes what is in the queue to the consumer registered by
\* channel.Consume: auto-ack is off and no prefetch limit is set, so every
\* ready message goes out, in queue order.
Deliver ==
    /\ ready # <<>>
    /\ unacked' = unacked \o ready
    /\ ready' = <<>>
    /\ last' = NoResponse
    /\ UNCHANGED <<ledger, consumer, identity, acked, sent, published, verdict>>

\* A loop body that acknowledges whatever the handler returned.
SettleAlwaysAck(msg, handlerOk) == "ack"

\* A loop body that gives up on a message delivered before.
SettleDropRedelivered(msg, handlerOk) ==
    IF handlerOk \/ msg.redelivered THEN "ack" ELSE "nack"

\* The queue after a requeue: the message is back at its original position,
\* that is in publish order, marked redelivered.
Requeue(queue, msg) ==
    SelectSeq(queue, LAMBDA m : m.id < msg.id)
        \o <<[msg EXCEPT !.redelivered = TRUE]>>
        \o SelectSeq(queue, LAMBDA m : m.id > msg.id)

\* if err := handler(msg.Body); err != nil { msg.Nack(false, true); continue }
\* msg.Ack(false)
Settle(msg, handlerOk) == IF handlerOk THEN "ack" ELSE "nack"

\* One turn of the consumer goroutine's loop: run the handler on the oldest
\* delivery and settle it.
HandleDelivery(handlerOk) ==
    /\ unacked # <<>>
    /\ LET msg == Head(unacked)
       IN  /\ msg.poison => ~handlerOk
           /\ verdict' = <<[id |-> msg.id, redelivered |-> msg.redelivered,
                            ok |-> handlerOk]>>
           /\ IF Settle(msg, handlerOk) = "ack"
              THEN /\ acked' = acked \cup {msg.id}
                   /\ UNCHANGED ready
              ELSE /\ ready' = Requeue(ready, msg)
                   /\ UNCHANGED acked
    /\ unacked' = Tail(unacked)
    /\ last' = NoResponse
    /\ UNCHANGED <<ledger, consumer, identity, sent, published>>

\* The consumer goroutine.
Handle == \E handlerOk \in BOOLEAN : HandleDelivery(handlerOk)

(* ------------------------------ AuthService --------------------------- *)

\* The usernames Register is called with.
Usernames == {"alice", "bob", "carol"}

\* The passwords Register is called with; "long" stands for a password of
\* more than 72 bytes, which bcrypt.GenerateFromPassword refuses.
Passwords == {"password123", "password456", "long"}

\* The salts bcrypt draws: two hashes of one password differ.
Salts == {1, 2}

ErrUserAlreadyExists == [kind |-> "ErrUserAlreadyExists", wrapped |-> FALSE]

ErrHashingPassword == [kind |-> "ErrHashingPassword", wrapped |-> FALSE]

ErrGeneratingToken == [kind |-> "ErrGeneratingToken", wrapped |-> FALSE]

\* fmt.Errorf(text + ": %w", err): a wrapping error with its own message.
WrapWith(err, text) == [kind |-> err.kind, wrapped |-> TRUE, text |-> text]

\* What Register returns to its caller: (*domain.AuthResponse, error), kept
\* with the username and password of the call. resp is <<>> for nil.
Answer(username, password, err, resp) ==
    [username |-> username, password |-> password, err |-> err, resp |-> resp]

\* No Register call has returned yet.
NoAnswer == Answer("", "", NoError, <<>>)

\* UserRepository.FindByUsername: <<>> for (nil, nil), else the one row of
\* that name (username is UNIQUE).
FindByUsername(username) == SelectSeq(users, LAMBDA u : u.username = username)

\* bcrypt.GenerateFromPassword: the hash of the password under a fresh salt.
GenerateFromPassword(password, salt) == [bcrypt |-> password, salt |-> salt]

\* The row UserRepository.Create inserts: INSERT ... RETURNING id, with id
\* SERIAL.
UserCreate(username, hashedPassword) ==
    [id |-> Len(users) + 1, username |-> username, password |-> hashedPassword]

\* username VARCHAR(255) UNIQUE: the INSERT of a stored name is refused.
UniqueViolation(username) == FindByUsername(username) # <<>>

\* jwt.GenerateToken(createdUser.ID, createdUser.Username, secretKey): the
\* claims the token carries.
GenerateToken(userID, username) == [user_id |-> userID, username |-> username]

\* The lookup of Register, as if it found no user of a name that is stored.
RegisterLookupBlind(username) == <<>>

\* existingUser of Register: what FindByUsername returned.
RegisterLookup(username) == FindByUsername(username)

\* AuthService.Register, one call served from start to end. findOk is
\* whether the store answers the lookup, outcome what the INSERT does,
\* tokenOk whether the token could be signed.
Register(username, password, salt, findOk, outcome, tokenOk) ==
    /\ LET existingUser == RegisterLookup(username)
           createdUser  == UserCreate(username, GenerateFromPassword(password, salt))
           refused      == UniqueViolation(username)
       IN  IF ~findOk
           THEN /\ answer' = Answer(username, password,
                                    WrapWith(ErrStore, "failed to check existing user"), <<>>)
                /\ UNCHANGED users
           ELSE IF existingUser # <<>>
           THEN /\ answer' = Answer(username, password, ErrUserAlreadyExists, <<>>)
                /\ UNCHANGED users
           ELSE IF password = "long"
           THEN /\ answer' = Answer(username, password, Wrap(ErrHashingPassword), <<>>)
                /\ UNCHANGED users
           ELSE /\ users' = IF outcome = "failed" \/ refused THEN users
                           ELSE Append(users, createdUser)
                /\ answer' =
                     IF outcome # "ok" \/ refused
                     THEN Answer(username, password,
                                 WrapWith(ErrStore, "failed to create user"), <<>>)
                     ELSE IF ~tokenOk
                     THEN Answer(username, password, Wrap(ErrGeneratingToken), <<>>)
                     ELSE Answer(username, password, NoError,
                                 <<[id |-> createdUser.id, username |-> createdUser.username,
                                    token |-> GenerateToken(createdUser.id,
                                                            createdUser.username)]>>)
    /\ UNCHANGED <<last, ledger, consumer, rabbit, entry>>

(* ------------------------------ entry points -------------------------- *)

\* The Authorization header of a request: none, one that is not
\* "Bearer <token>", or a bearer token.
HeaderKinds == {"absent", "malformed", "bearer"}

\* The user ids the tokens are issued for and the requests name.
Subjects == {1, 2}

\* No authenticated request was taken yet.
NoEntry == [point |-> "none", route |-> "none", subject |-> 0, user_id |-> 0]

\* An authenticated request: the entry point and route it came through,
\* the user id of its token's claims (X-User-ID, or validateAuth's result)
\* and the user id the service is called with.
Entry(point, route, subject, userID) ==
    [point |-> point, route |-> route, subject |-> subject, user_id |-> userID]

\* AuthMiddleware.Authenticate: the error of its 401 answer, "" when the
\* request is passed on to the handler. valid is whether jwt.ValidateToken
\* accepts the token.
Authenticate(header, valid) ==
    IF header = "absent" THEN "authorization header required"
    ELSE IF header = "malformed" THEN "invalid authorization header format"
    ELSE IF ~valid THEN "invalid token"
    ELSE ""

\* Gateway.validateAuth: (userID, err). valid is whether the auth service
\* answered the ValidateToken call with Valid.
ValidateAuth(header, valid, subject) ==
    IF header = "bearer" /\ valid THEN [userID |-> subject, err |-> FALSE]
    ELSE [userID |-> 0, err |-> TRUE]

\* The answer of an entry point that turns the request away.
Refused(op, via, userID, amount, description, status, error) ==
    [Response(op, via, userID, amount, description) EXCEPT !.status = status, !.error = error]

\* The user id the payment handler's create route calls the service with:
\* the user_id of the decoded body.
HandlerUserID(subject, userID) == userID

\* POST /transactions of the payment service:
\* authMiddleware.Authenticate(paymentHandler.CreateTransaction).
PaymentCreateTransaction(w, header, valid, subject, userID, amount, description, decodeOk) ==
    /\ req[w].pc = "idle"
    /\ IF Authenticate(header, valid) # ""
       THEN /\ last' = Refused("create", "http", userID, amount, description, "401",
                               Authenticate(header, valid))
            /\ UNCHANGED <<ledger, entry>>
       ELSE /\ CreateTransactionBegin(w, "http", HandlerUserID(subject, userID), amount,
                                      description, decodeOk)
            /\ entry' = IF decodeOk
                        THEN [entry EXCEPT ![w] = Entry("payment", "create", subject,
                                                        HandlerUserID(subject, userID))]
                        ELSE entry
    /\ UNCHANGED <<consumer, rabbit, users, answer>>

\* GET /transactions/list of the payment service.
PaymentGetTransactions(w, header, valid, subject, userID, query, ok) ==
    /\ req[w].pc = "idle"
    /\ IF Authenticate(header, valid) # ""
       THEN /\ last' = Refused("list", "http", userID, 0, "", "401",
                               Authenticate(header, valid))
            /\ UNCHANGED <<ledger, entry>>
       ELSE /\ GetTransactions(w, "http", userID, query, ok)
            /\ entry' = IF query = "int"
                        THEN [entry EXCEPT ![w] = Entry("payment", "list", subject, userID)]
                        ELSE entry
    /\ UNCHANGED <<consumer, rabbit, users, answer>>

\* POST /transactions/pay of the payment service.
PaymentPayAllTransactions(w, header, valid, subject, userID, query, outcome) ==
    /\ req[w].pc = "idle"
    /\ IF Authenticate(header, valid) # ""
       THEN /\ last' = Refused("pay", "http", userID, 0, "", "401",
                               Authenticate(header, valid))
            /\ UNCHANGED <<ledger, entry>>
       ELSE /\ PayAllTransactions(w, "http", userID, query, outcome)
            /\ entry' = IF query = "int"
                        THEN [entry EXCEPT ![w] = Entry("payment", "pay", subject, userID)]
                        ELSE entry
    /\ UNCHANGED <<consumer, rabbit, users, answer>>

\* Gateway.handleCreateTransaction: the token's user id goes into the gRPC
\* request; the body carries amount and description only.
HandleCreateTransaction(w, post, header, valid, subject, amount, description, decodeOk) ==
    /\ req[w].pc = "idle"
    /\ LET auth == ValidateAuth(header, valid, subject)
       IN  IF ~post
           THEN /\ last' = Refused("create", "gateway", 0, amount, description, "405",
                                   "method not allowed")
                /\ UNCHANGED <<ledger, entry>>
           ELSE IF auth.err
           THEN /\ last' = Refused("create", "gateway", 0, amount, description, "401",
                                   "unauthorized")
                /\ UNCHANGED <<ledger, entry>>
           ELSE IF ~decodeOk
           THEN /\ last' = Refused("create", "gateway", auth.userID, amount, description,
                                   "400", "invalid request body")
                /\ UNCHANGED <<ledger, entry>>
           ELSE /\ CreateTransactionBegin(w, "grpc", auth.userID, amount, description, TRUE)
                /\ entry' = [entry EXCEPT ![w] = Entry("gateway", "create", subject,
                                                       auth.userID)]
    /\ UNCHANGED <<consumer, rabbit, users, answer>>

\* Gateway.handleGetTransactions.
HandleGetTransactions(w, get, header, valid, subject, ok) ==
    /\ req[w].pc = "idle"
    /\ LET auth == ValidateAuth(header, valid, subject)
       IN  IF ~get
           THEN /\ last' = Refused("list", "gateway", 0, 0, "", "405", "method not allowed")
                /\ UNCHANGED <<ledger, entry>>
           ELSE IF auth.err
           THEN /\ last' = Refused("list", "gateway", 0, 0, "", "401", "unauthorized")
                /\ UNCHANGED <<ledger, entry>>
           ELSE /\ GetTransactions(w, "grpc", auth.userID, "int", ok)
                /\ entry' = [entry EXCEPT ![w] = Entry("gateway", "list", subject,
                                                       auth.userID)]
    /\ UNCHANGED <<consumer, rabbit, users, answer>>

\* Gateway.handlePayTransactions.
HandlePayTransactions(w, post, header, valid, subject, outcome) ==
    /\ req[w].pc = "idle"
    /\ LET auth == ValidateAuth(header, valid, subject)
       IN  IF ~post
           THEN /\ last' = Refused("pay", "gateway", 0, 0, "", "405", "method not allowed")
                /\ UNCHANGED <<ledger, entry>>
           ELSE IF auth.err
           THEN /\ last' = Refused("pay", "gateway", 0, 0, "", "401", "unauthorized")
                /\ UNCHANGED <<ledger, entry>>
           ELSE /\ PayAllTransactions(w, "grpc", auth.userID, "int", outcome)
                /\ entry' = [entry EXCEPT ![w] = Entry("gateway", "pay", subject,
                                                       auth.userID)]
    /\ UNCHANGED <<consumer, rabbit, users, answer>>

(* ----------------------------- specifications ------------------------- *)

Init ==
    /\ transactions = <<>>
    /\ now = 0
    /\ req = [w \in Workers |-> Idle]
    /\ last = NoResponse
    /\ tasks = {}
    /\ spawned = 0
    /\ topic = <<>>
    /\ dropped = {}
    /\ counters = [p \in Partitions |-> 0]
    /\ committed = [p \in Partitions |-> 0]
    /\ position = [p \in Partitions |-> 0]
    /\ queued = [p \in Partitions |-> 0]
    /\ fetched = <<>>
    /\ analytics = NewAnalytics
    /\ handled = <<>>
    /\ crashes = 0
    /\ other = 0
    /\ cancelled = FALSE
    /\ running = TRUE
    /\ readErrors = 0
    /\ logged = {}
    /\ mu = "unlocked"
    /\ pc = [t \in Appliers \cup Readers |-> 0]
    /\ arg = [t \in Appliers |-> <<>>]
    /\ stats = [t \in Readers |-> <<>>]
    /\ returned = <<>>
    /\ history = {GetStats(NewAnalytics)}
    /\ applies = 0
    /\ completions = [e \in AppliedEvents |-> 0]
    /\ ready = <<>>
    /\ unacked = <<>>
    /\ acked = {}
    /\ sent = 0
    /\ published = {}
    /\ verdict = <<>>
    /\ users = <<>>
    /\ answer = NoAnswer
    /\ entry = [w \in Workers |-> NoEntry]

\* Create requests drawn from the given sets, served by the workers W.
Creates(W, Vias, UserIDs, Amounts, Descriptions, Ticks, Writes) ==
    \/ \E w \in W, via \in Vias, u \in UserIDs, a \in Amounts,
          d \in Descriptions, decodeOk \in BOOLEAN :
            /\ (via # "http" => decodeOk)
            /\ CreateTransactionBegin(w, via, u, a, d, decodeOk)
            /\ UNCHANGED <<consumer, rabbit, identity>>
    \/ \E w \in W, ok \in BOOLEAN :
            /\ CreateTransactionReadTotal(w, ok)
            /\ UNCHANGED <<consumer, rabbit, identity>>
    \/ \E w \in W, outcome \in Writes, tick \in Ticks :
            /\ CreateTransactionInsert(w, outcome, tick)
            /\ UNCHANGED <<consumer, rabbit, identity>>

\* List requests.
Lists(W, Vias, UserIDs) ==
    \E w \in W, via \in Vias, u \in UserIDs, q \in QueryKinds, ok \in BOOLEAN :
        /\ (via # "http" => q = "int")
        /\ GetTransactions(w, via, u, q, ok)
        /\ UNCHANGED <<consumer, rabbit, identity>>

\* Pay requests.
Pays(W, Vias, UserIDs, Writes) ==
    \E w \in W, via \in Vias, u \in UserIDs, q \in QueryKinds, outcome \in Writes :
        /\ (via # "http" => q = "int")
        /\ PayAllTransactions(w, via, u, q, outcome)
        /\ UNCHANGED <<consumer, rabbit, identity>>

\* The second read of the HTTP handler's ErrExceedsMaximum branch.
Report(W) ==
    \E w \in W, ok \in BOOLEAN :
        /\ CreateTransactionReportTotal(w, ok)
        /\ UNCHANGED <<consumer, rabbit, identity>>

\* The detached publish goroutines.
Emission ==
    \/ \E t \in tasks, outcome \in PublishOutcomes :
            /\ PublishTransactionCreated(t, outcome)
            /\ UNCHANGED <<consumer, rabbit, identity>>
    \/ \E t \in tasks, outcome \in PublishOutcomes :
            /\ PublishTransactionPaid(t, outcome)
            /\ UNCHANGED <<consumer, rabbit, identity>>

\* One request at a time, from direct callers of the service: user ids 0
\* (invalid) and 1; amounts that validation rejects (-50.00, 0), that lose
\* their third decimal in the store (0.004), and that reach 1000.00
\* (400.00 and 600.00) or pass it by 0.01 (400.00 and 600.01).
Next ==
    \/ Creates({"w1"}, {"svc"}, {0, 1}, {-50000, 0, 4, 400000, 600000, 600010}, {"rent"}, {1},
               Outcomes)
    \/ Lists({"w1"}, {"svc"}, {0, 1})
    \/ Pays({"w1"}, {"svc"}, {0, 1}, Outcomes)

Spec == Init /\ [][Next]_vars

\* Two create requests at a time, for two users.
NextConcurrent ==
    Creates(Workers, {"svc"}, {1, 2}, {400000, 600000}, {"rent"}, {1}, Outcomes)

SpecConcurrent == Init /\ [][NextConcurrent]_vars

\* Lists and pays over the rows of two users, with creation timestamps
\* that may coincide.
NextList ==
    \/ Creates({"w1"}, {"svc"}, {1, 2}, {400000}, {"rent"}, {0, 1}, {"ok"})
    \/ Lists({"w1"}, {"svc"}, {0, 1, 2})
    \/ Pays({"w1"}, {"svc"}, {0, 1, 2}, {"ok", "failed"})

SpecList == Init /\ [][NextList]_vars

\* Creations whose amount has a third decimal (0.004, 600.005) and whose
\* description varies, each followed by lists.
NextRoundTrip ==
    \/ Creates({"w1"}, {"svc"}, {1}, {4, 400000, 600005}, {"rent", "food"}, {1},
               {"ok", "failed"})
    \/ Lists({"w1"}, {"svc"}, {1})

SpecRoundTrip == Init /\ [][NextRoundTrip]_vars

\* Requests through the HTTP handler and the gRPC server.
NextSurface ==
    \/ Creates({"w1"}, {"http", "grpc"}, {0, 1}, {0, 400000, 600000}, {"rent"}, {1},
               {"ok", "failed"})
    \/ Report({"w1"})
    \/ Lists({"w1"}, {"http", "grpc"}, {0, 1})
    \/ Pays({"w1"}, {"http", "grpc"}, {0, 1}, {"ok", "failed"})

SpecSurface == Init /\ [][NextSurface]_vars

\* Creates and pays for two users together with the publish goroutines they
\* start; requests are taken until MaxEvents goroutines have been started.
NextEmission ==
    \/ /\ spawned < MaxEvents
       /\ Creates({"w1"}, {"svc"}, {1, 2}, {400000}, {"rent"}, {1}, Outcomes)
    \/ /\ spawned < MaxEvents
       /\ Pays({"w1"}, {"svc"}, {1, 2}, {"ok", "failed"})
    \/ Emission

SpecEmission == Init /\ [][NextEmission]_vars

\* Creates of one user, of 0.004 and of 400.00, pays, their publishes, and
\* the analytics service consuming the topic.
NextAnalytics ==
    \/ /\ spawned < MaxEvents
       /\ Creates({"w1"}, {"svc"}, {1}, {4, 400000}, {"rent"}, {1}, {"ok"})
    \/ /\ spawned < MaxEvents
       /\ Pays({"w1"}, {"svc"}, {1}, {"ok"})
    \/ Emission
    \/ Consumer

SpecAnalytics == Init /\ [][NextAnalytics]_vars

\* The consume loop without crashes of the service, on a topic that the
\* publisher and another producer write to.
NextIngest ==
    \/ /\ spawned < MaxEvents
       /\ Creates({"w1"}, {"svc"}, {1}, {400000}, {"rent"}, {1}, {"ok"})
    \/ /\ spawned < MaxEvents
       /\ Pays({"w1"}, {"svc"}, {1}, {"ok"})
    \/ \E t \in tasks :
          /\ PublishTransactionCreated(t, "written")
          /\ UNCHANGED <<consumer, rabbit, identity>>
    \/ \E t \in tasks :
          /\ PublishTransactionPaid(t, "written")
          /\ UNCHANGED <<consumer, rabbit, identity>>
    \/ \E p \in Partitions, value \in {RefundedEvent, NotJSON} : ProduceOther(p, value)
    \/ \E p \in Partitions : ReadMessage(p)
    \/ HandleMessage

SpecIngest == Init /\ [][NextIngest]_vars

\* The consume loop on the publisher's topic, with read errors and the
\* shutdown of the service.
NextShutdown ==
    \/ /\ spawned < MaxEvents
       /\ Creates({"w1"}, {"svc"}, {1}, {400000}, {"rent"}, {1}, {"ok"})
    \/ \E t \in tasks :
          /\ PublishTransactionCreated(t, "written")
          /\ UNCHANGED <<consumer, rabbit, identity>>
    \/ \E p \in Partitions : ReadMessage(p)
    \/ HandleMessage
    \/ ReadMessageError
    \/ Shutdown

SpecShutdown == Init /\ [][NextShutdown]_vars

\* The amounts user 1 submits, in this order.
ScenarioAmounts == <<400000, 300000, 250000, 100000>>

\* One user's requests through the HTTP handler, one at a time, with a
\* store that answers and a broker that takes every write, and the
\* analytics service consuming the topic: the creations of ScenarioAmounts,
\* each submitted once the ones before it are stored, the last one again
\* and again, and pays once the first three are stored.
NextScenario ==
    \/ \E k \in 1..Len(ScenarioAmounts) :
          /\ k = IF Len(transactions) < Len(ScenarioAmounts)
                 THEN Len(transactions) + 1 ELSE Len(ScenarioAmounts)
          /\ CreateTransactionBegin("w1", "http", 1, ScenarioAmounts[k], "rent", TRUE)
          /\ UNCHANGED <<consumer, rabbit, identity>>
    \/ /\ CreateTransactionReadTotal("w1", TRUE)
       /\ UNCHANGED <<consumer, rabbit, identity>>
    \/ /\ CreateTransactionInsert("w1", "ok", 1)
       /\ UNCHANGED <<consumer, rabbit, identity>>
    \/ /\ CreateTransactionReportTotal("w1", TRUE)
       /\ UNCHANGED <<consumer, rabbit, identity>>
    \/ /\ Len(transactions) = Len(ScenarioAmounts) - 1
       /\ PayAllTransactions("w1", "http", 1, "int", "ok")
       /\ UNCHANGED <<consumer, rabbit, identity>>
    \/ \E t \in tasks :
          /\ PublishTransactionCreated(t, "written")
          /\ UNCHANGED <<consumer, rabbit, identity>>
    \/ \E t \in tasks :
          /\ PublishTransactionPaid(t, "written")
          /\ UNCHANGED <<consumer, rabbit, identity>>
    \/ \E p \in Partitions : ReadMessage(p)
    \/ HandleMessage

SpecScenario == Init /\ [][NextScenario]_vars

\* KafkaConsumer.Consume on the publisher's topic, with a handler that may
\* fail on any message.
NextConsume ==
    \/ /\ spawned < MaxEvents
       /\ Creates({"w1"}, {"svc"}, {1}, {300000}, {"rent"}, {1}, {"ok"})
    \/ \E t \in tasks :
          /\ PublishTransactionCreated(t, "written")
          /\ UNCHANGED <<consumer, rabbit, identity>>
    \/ \E p \in Partitions : ReadMessage(p)
    \/ \E handlerOk \in BOOLEAN : ConsumeHandle(handlerOk)

SpecConsume == Init /\ [][NextConsume]_vars

\* The same, with a goroutine that keeps running and a reader that keeps
\* returning the messages it has.
SpecConsumeFair ==
    /\ SpecConsume
    /\ WF_vars(\E p \in Partitions : ReadMessage(p))
    /\ WF_vars(\E handlerOk \in BOOLEAN : ConsumeHandle(handlerOk))

\* Goroutines calling ProcessEvent and GetStats on one aggregate.
NextSnapshot ==
    \/ \E t \in Appliers, event \in AppliedEvents : ProcessEventLock(t, event)
    \/ \E t \in Appliers : ProcessEventStatement(t)
    \/ \E t \in Appliers : ProcessEventUnlock(t)
    \/ \E t \in Readers : GetStatsRLock(t)
    \/ \E t \in Readers : GetStatsRead(t)
    \/ \E t \in Readers : GetStatsReturn(t)

SpecSnapshot == Init /\ [][NextSnapshot]_vars

\* Register calls, one at a time: three usernames, passwords that bcrypt
\* takes and one it refuses, a store that answers, fails or loses its reply.
NextAuth ==
    \E username \in Usernames, password \in Passwords, salt \in Salts,
       findOk \in BOOLEAN, outcome \in Outcomes, tokenOk \in BOOLEAN :
        Register(username, password, salt, findOk, outcome, tokenOk)

SpecAuth == Init /\ [][NextAuth]_vars

\* Requests of two users through the payment service's own routes and
\* through the gateway, with every kind of Authorization header.
NextEntry ==
    \/ /\ spawned < MaxEvents
       /\ \E h \in HeaderKinds, valid \in BOOLEAN, s \in Subjects, u \in Subjects,
             decodeOk \in BOOLEAN :
            PaymentCreateTransaction("w1", h, valid, s, u, 400000, "rent", decodeOk)
    \/ \E h \in HeaderKinds, valid \in BOOLEAN, s \in Subjects, u \in Subjects,
          q \in QueryKinds, ok \in BOOLEAN :
            PaymentGetTransactions("w1", h, valid, s, u, q, ok)
    \/ /\ spawned < MaxEvents
       /\ \E h \in HeaderKinds, valid \in BOOLEAN, s \in Subjects, u \in Subjects,
             q \in QueryKinds, outcome \in {"ok", "failed"} :
            PaymentPayAllTransactions("w1", h, valid, s, u, q, outcome)
    \/ /\ spawned < MaxEvents
       /\ \E post \in BOOLEAN, h \in HeaderKinds, valid \in BOOLEAN, s \in Subjects,
             decodeOk \in BOOLEAN :
            HandleCreateTransaction("w1", post, h, valid, s, 400000, "rent", decodeOk)
    \/ \E get \in BOOLEAN, h \in HeaderKinds, valid \in BOOLEAN, s \in Subjects,
          ok \in BOOLEAN :
            HandleGetTransactions("w1", get, h, valid, s, ok)
    \/ /\ spawned < MaxEvents
       /\ \E post \in BOOLEAN, h \in HeaderKinds, valid \in BOOLEAN, s \in Subjects,
             outcome \in {"ok", "failed"} :
            HandlePayTransactions("w1", post, h, valid, s, outcome)
    \/ \E ok \in BOOLEAN :
            /\ CreateTransactionReadTotal("w1", ok)
            /\ UNCHANGED <<consumer, rabbit, identity>>
    \/ \E outcome \in {"ok", "failed"} :
            /\ CreateTransactionInsert("w1", outcome, 1)
            /\ UNCHANGED <<consumer, rabbit, identity>>
    \/ Report({"w1"})

SpecEntry == Init /\ [][NextEntry]_vars

\* Messages published to a RabbitMQ queue and a consumer on it.
NextQueue ==
    \/ \E poison \in BOOLEAN, outcome \in RabbitOutcomes : RabbitPublish(poison, outcome)
    \/ Deliver
    \/ Handle

SpecQueue == Init /\ [][NextQueue]_vars

\* The same, with a broker that keeps delivering and a consumer goroutine
\* that keeps running.
SpecQueueFair == SpecQueue /\ WF_vars(Deliver) /\ WF_vars(Handle)

(* -------------------------------- claims ------------------------------ *)

\* The valid user ids of the specifications above.
Users == {1, 2}

\* The cumulative total of every user is within the maximum.
WithinMaximum == \A u \in Users : GetTotalAmountByUserID(u) <= MaxTransactionTotal

\* C1: under any interleaving of concurrent CreateTransaction calls, the sum
\* of the amounts of a user's committed transactions never exceeds 1000.
C1_CapUnderConcurrency == WithinMaximum

\* The step is the insert of worker w's create, taking effect.
InsertsBy(w) == \E o \in {"ok", "lost"}, tick \in {0, 1} : CreateTransactionInsert(w, o, tick)

\* No transaction of the user of w's create was created since w read the total.
NoCreationSinceRead(w) == Len(RowsOf(transactions, req[w].user_id)) = req[w].rowsAtRead

\* The last step answered a create that the service accepted.
CreateSucceeded == last.op = "create" /\ last.err = NoError /\ last.tx # <<>>

\* C2: when no other creation for the user happens between a call's read of
\* the total and its insert, the call inserts only if previous total + amount
\* <= 1000 and the user's total is <= 1000 after it; a call that reads a
\* total with total + amount > 1000 fails with ErrExceedsMaximum.
C2_SequentialCap ==
    [][\A w \in Workers :
        /\ (InsertsBy(w) /\ NoCreationSinceRead(w))
              => /\ GetTotalAmountByUserID(req[w].user_id) + req[w].amount
                        <= MaxTransactionTotal
                 /\ SumAmounts(transactions', req[w].user_id) <= MaxTransactionTotal
        /\ (/\ CreateTransactionReadTotal(w, TRUE)
            /\ GetTotalAmountByUserID(req[w].user_id) + req[w].amount > MaxTransactionTotal)
              => /\ last'.op = "create"
                 /\ ErrorsIs(last'.err, ErrExceedsMaximum)
                 /\ req'[w].pc = "idle"]_vars

\* A create succeeded for a user who had transactions before, and the
\* user's total is exactly the maximum.
C2_Witness ==
    /\ CreateSucceeded
    /\ Len(RowsOf(transactions, last.user_id)) >= 2
    /\ GetTotalAmountByUserID(last.user_id) = MaxTransactionTotal

\* C3: the maximum is inclusive. A create that reads a total with total +
\* amount = 1000.00 goes on to its insert, and the insert, when the store
\* takes it, succeeds and leaves the total at exactly 1000.00; a create
\* with total + amount = 1000.01 fails with ErrExceedsMaximum.
C3_CapInclusive ==
    [][\A w \in Workers :
        LET total == GetTotalAmountByUserID(req[w].user_id)
        IN  /\ (CreateTransactionReadTotal(w, TRUE)
                    /\ total + req[w].amount = MaxTransactionTotal)
                  => req'[w].pc = "insert"
            /\ (\E tick \in {0, 1} : CreateTransactionInsert(w, "ok", tick)
                    /\ total + req[w].amount = MaxTransactionTotal)
                  => /\ CreateSucceeded'
                     /\ SumAmounts(transactions', req[w].user_id) = MaxTransactionTotal
            /\ (CreateTransactionReadTotal(w, TRUE)
                    /\ total + req[w].amount = MaxTransactionTotal + 10)
                  => /\ last'.op = "create"
                     /\ ErrorsIs(last'.err, ErrExceedsMaximum)
                     /\ transactions' = transactions]_vars

\* A second create has just brought its user's total to exactly 1000.00.
C3_Witness ==
    /\ CreateSucceeded
    /\ last.tx[1].amount < MaxTransactionTotal
    /\ GetTotalAmountByUserID(last.user_id) = MaxTransactionTotal

\* The step answered a create with a validation failure of the given kind
\* and touched neither the store nor the events, and the request never got
\* to a store operation.
RejectedUntouched(err) ==
    /\ last'.err = err
    /\ last'.tx = <<>>
    /\ req' = req
    /\ UNCHANGED <<store, emission>>

\* C4 as stated: amount <= 0 fails with ErrInvalidAmount and user id <= 0
\* fails with ErrInvalidUserID, the store untouched and no event emitted.
C4_ValidationAsStated ==
    [][(last'.op = "create" /\ last'.via = "svc")
          => /\ (last'.amount <= 0 => RejectedUntouched(ErrInvalidAmount))
             /\ (last'.user_id <= 0 => RejectedUntouched(ErrInvalidUserID))]_vars

\* C4, amended: amount <= 0 fails with ErrInvalidAmount, and amount > 0 with
\* user id <= 0 fails with ErrInvalidUserID (the amount is validated
\* first); in both cases the store is neither read nor written and no event
\* is emitted.
C4_Validation ==
    [][(last'.op = "create" /\ last'.via = "svc")
          => /\ (last'.amount <= 0 => RejectedUntouched(ErrInvalidAmount))
             /\ (last'.amount > 0 /\ last'.user_id <= 0
                    => RejectedUntouched(ErrInvalidUserID))]_vars

\* With a transaction stored, a create with a positive amount and user id 0
\* was rejected as ErrInvalidUserID.
C4_Witness ==
    /\ last.op = "create"
    /\ last.err = ErrInvalidUserID
    /\ last.amount > 0
    /\ last.user_id <= 0
    /\ transactions # <<>>

\* C5: a create rejected as exceeding the maximum leaves the stored
\* transactions unchanged and starts no event emission.
C5_RejectionFrame ==
    [][(last'.op = "create" /\ ErrorsIs(last'.err, ErrExceedsMaximum))
          => /\ transactions' = transactions
             /\ tasks' = tasks
             /\ spawned' = spawned
             /\ topic' = topic]_vars

\* A create was rejected as exceeding the maximum while its user had
\* unpaid transactions stored.
C5_Witness ==
    /\ last.op = "create"
    /\ ErrorsIs(last.err, ErrExceedsMaximum)
    /\ \E i \in 1..Len(transactions) :
           transactions[i].user_id = last.user_id /\ ~transactions[i].is_paid

\* C6: every failure for exceeding the maximum that the HTTP handler or the
\* gRPC server returns carries the user's current total and the maximum.
C6_ExceedsCarriesTotals ==
    (last.op = "create" /\ last.via \in {"http", "grpc"}
        /\ ErrorsIs(last.err, ErrExceedsMaximum))
      => (last.current_total # <<>> /\ last.max_allowed # <<>>)

\* C7: right after a successful CreateTransaction(user, amount, description)
\* a list of the user's transactions holds the new transaction exactly once,
\* unpaid, with the submitted user, amount and description.
C7_RoundTrip ==
    CreateSucceeded =>
        LET got  == ServiceGetTransactions(last.user_id, TRUE)
            rows == got.list.rows
            new  == {i \in 1..Len(rows) : rows[i].id = last.tx[1].id}
        IN  /\ got.err = NoError
            /\ Cardinality(new) = 1
            /\ \A i \in new :
                  /\ ~rows[i].is_paid
                  /\ rows[i].user_id = last.user_id
                  /\ rows[i].amount = last.amount
                  /\ rows[i].description = last.description

\* The stored rows of a user.
OwnedBy(userID) == {i \in 1..Len(transactions) : transactions[i].user_id = userID}

\* C8: a list returns exactly the transactions the user owns, each once,
\* newest created_at first, and an empty sequence that is not nil when the
\* user owns none.
C8_ListOwnedNewestFirst ==
    (last.op = "list" /\ last.user_id > 0 /\ last.err = NoError)
      => LET rows == last.list.rows
         IN  /\ ~last.list.isNil
             /\ Len(rows) = Cardinality(OwnedBy(last.user_id))
             /\ \A i \in OwnedBy(last.user_id) :
                    \E j \in 1..Len(rows) : rows[j] = transactions[i]
             /\ \A j, k \in 1..Len(rows) :
                    j < k => rows[j].created_at >= rows[k].created_at

\* A list returned a user's rows, a newer one before an older one, while
\* another user owns rows too.
C8_Witness ==
    /\ last.op = "list"
    /\ last.err = NoError
    /\ Len(last.list.rows) >= 2
    /\ last.list.rows[1].created_at > last.list.rows[2].created_at
    /\ \E i \in 1..Len(transactions) : transactions[i].user_id # last.user_id

C12_Lifecycle ==
    [][/\ Len(transactions') >= Len(transactions)
       /\ \A i \in 1..Len(transactions) :
             /\ transactions'[i].id = transactions[i].id
             /\ transactions'[i].user_id = transactions[i].user_id
             /\ transactions'[i].amount = transactions[i].amount
             /\ transactions'[i].description = transactions[i].description
             /\ transactions'[i].created_at = transactions[i].created_at
             /\ transactions[i].is_paid => transactions'[i].is_paid]_vars

\* A pay ran on a user who owns a transaction paid earlier and one that was
\* still unpaid.
C12_Witness ==
    /\ last.op = "pay"
    /\ last.err = NoError
    /\ last.count = 1
    /\ Cardinality(OwnedBy(last.user_id)) >= 2
    /\ \A i \in OwnedBy(last.user_id) : transactions[i].is_paid

\* C13: a pay leaves the cumulative total of every user unchanged, and a
\* create is let through to its insert only if the amounts of all the user's
\* transactions, paid and unpaid, plus the requested amount are within the
\* maximum.
C13_TotalCountsPaid ==
    [][/\ last'.op = "pay"
            => \A u \in {0} \cup Users :
                  SumAmounts(transactions', u) = SumAmounts(transactions, u)
       /\ \A w \in Workers :
            (req[w].pc = "total" /\ req'[w].pc = "insert")
              => SumAmounts(transactions, req[w].user_id) + req[w].amount
                    <= MaxTransactionTotal]_vars

\* A create was rejected for exceeding the maximum although every
\* transaction of its user is paid.
C13_Witness ==
    /\ last.op = "create"
    /\ ErrorsIs(last.err, ErrExceedsMaximum)
    /\ OwnedBy(last.user_id) # {}
    /\ \A i \in OwnedBy(last.user_id) : transactions[i].is_paid

\* C14: a create or pay has answered its caller with success before its
\* publish runs, and the publish, whether it writes the event or fails,
\* changes no stored transaction, no request in progress and no answer.
C14_ResultIndependentOfEmission ==
    [][/\ spawned' # spawned
            => /\ last'.op \in {"create", "pay"}
               /\ last'.err = NoError
               /\ \E t \in tasks' \ tasks : t.seq = spawned'
               /\ UNCHANGED <<topic, dropped>>
       /\ (tasks' # tasks /\ spawned' = spawned)
            => /\ UNCHANGED <<transactions, now, req>>
               /\ last' = NoResponse]_vars

\* Three transactions are stored: the event of one was written, the publish
\* of another failed, the third has not run.
C14_Witness ==
    /\ Len(transactions) = 3
    /\ Len(topic) = 1
    /\ Cardinality(dropped) = 1
    /\ Cardinality(tasks) = 1

\* Every goroutine started so far is waiting, has written its message, or
\* has failed: one of the three and only one, and no message was written
\* twice.
AttemptedOnce ==
    LET written == {topic[i].seq : i \in 1..Len(topic)}
        waiting == {t.seq : t \in tasks}
        failed  == {d.seq : d \in dropped}
    IN  /\ Cardinality(written) = Len(topic)
        /\ Cardinality(waiting) = Cardinality(tasks)
        /\ Cardinality(failed) = Cardinality(dropped)
        /\ written \cup waiting \cup failed = 1..spawned
        /\ written \cap waiting = {}
        /\ written \cap failed = {}
        /\ waiting \cap failed = {}

C17_KeyedLane ==
    \A i, j \in 1..Len(topic) :
        /\ topic[i].key = ToString(topic[i].value.user_id)
        /\ topic[i].value.user_id = topic[j].value.user_id
              => topic[i].partition = topic[j].partition

\* The sum of the amounts of all stored transactions.
RECURSIVE StoredAmount(_)
StoredAmount(rows) ==
    IF rows = <<>> THEN 0 ELSE Head(rows).amount + StoredAmount(Tail(rows))

\* No event was handed to ProcessEvent more than once.
NoDuplicateDelivery == \A s \in DOMAIN handled : handled[s] <= 1

\* C15: an event whose publish failed is never written to the topic later,
\* and while the publish of a created event has failed and no event was
\* delivered twice, the aggregate's total_transactions is below the number
\* of stored transactions and its total_amount below the sum of their amounts.
C15_NoRetry ==
    /\ \A i \in 1..Len(topic) : \A d \in dropped : topic[i].seq # d.seq
    /\ ((\E d \in dropped : d.kind = "created") /\ NoDuplicateDelivery)
          => /\ analytics.total_transactions < Len(transactions)
             /\ analytics.total_amount < StoredAmount(transactions)

\* C20: whenever the analytics consumer is about to read, every message
\* behind the offset committed for its group has been handed to
\* ProcessEvent at least once, crashes of the consumer included.
C20_AtLeastOnce ==
    fetched = <<>>
      => \A p \in Partitions : \A k \in 1..committed[p] :
            k <= Len(PartitionLog(p)) /\ PartitionLog(p)[k].seq \in DOMAIN handled

\* The ids of the messages in a sequence of messages.
IdsOf(msgs) == {msgs[k].id : k \in 1..Len(msgs)}

\* C18: each run of the handler on a delivery settles it once: after a
\* handler success the message is acknowledged and gone from the queue,
\* after a handler error it is back in the queue marked redelivered and is
\* not acknowledged; no message is in two places.
C18_OneOutcomePerDelivery ==
    [][(unacked # <<>> /\ unacked' = Tail(unacked))
          => LET msg == Head(unacked)
             IN  /\ verdict' # <<>>
                 /\ verdict'[1].id = msg.id
                 /\ verdict'[1].ok
                      => /\ acked' = acked \cup {msg.id}
                         /\ msg.id \notin IdsOf(ready') \cup IdsOf(unacked')
                         /\ ready' = ready
                 /\ ~verdict'[1].ok
                      => /\ acked' = acked
                         /\ msg.id \notin acked'
                         /\ \E k \in 1..Len(ready') :
                               ready'[k].id = msg.id /\ ready'[k].redelivered
                         /\ Len(ready') = Len(ready) + 1
                 /\ Len(ready') + Len(unacked') + Cardinality(acked')
                      = Cardinality(IdsOf(ready') \cup IdsOf(unacked') \cup acked')]_vars

\* The handler failed on a delivery, which is back in the queue marked
\* redelivered, while another message has been acknowledged.
C18_Witness ==
    /\ verdict # <<>>
    /\ ~verdict[1].ok
    /\ \E k \in 1..Len(ready) : ready[k].id = verdict[1].id /\ ready[k].redelivered
    /\ acked # {}

\* Message i is in the queue or with the consumer, and its handler always fails.
Poisoned(i) ==
    \/ \E k \in 1..Len(ready) : ready[k].id = i /\ ready[k].poison
    \/ \E k \in 1..Len(unacked) : unacked[k].id = i /\ unacked[k].poison

\* Message i is with the consumer as a redelivery.
Redelivered(i) == \E k \in 1..Len(unacked) : unacked[k].id = i /\ unacked[k].redelivered

\* Message i is back in the queue after a failed delivery.
Requeued(i) == \E k \in 1..Len(ready) : ready[k].id = i /\ ready[k].redelivered

\* C19: a message whose handler fails on every delivery is never
\* acknowledged or discarded, and again and again it is requeued and
\* delivered anew.
C19_UnboundedRedelivery ==
    \A i \in 1..MaxMessages :
        [](Poisoned(i) => /\ [](Poisoned(i) /\ i \notin acked)
                          /\ <>Redelivered(i)
                          /\ <>Requeued(i))

\* A message whose handler always fails is with the consumer as a
\* redelivery, behind another delivery.
C19_Witness ==
    /\ Len(unacked) >= 2
    /\ \E k \in 2..Len(unacked) : unacked[k].poison /\ unacked[k].redelivered

\* C30: a create or pay that returns a store error, a deadline that ran out
\* included, has changed no stored transaction and started no event.
C30_FailureLeavesNothing ==
    [][(last'.op \in {"create", "pay"} /\ ErrorsIs(last'.err, ErrStore))
          => /\ transactions' = transactions
             /\ UNCHANGED emission]_vars

\* C21: every message whose Publish returned success is stored in the
\* channel: it is in the queue, with the consumer, or acknowledged.
C21_PublishDurable ==
    \A id \in published : id \in IdsOf(ready) \cup IdsOf(unacked) \cup acked

\* C28: the consumer applies the messages of a lane in published order: when
\* the handler succeeds on a message, no message published before it is
\* still waiting to be applied.
C28_LaneOrder ==
    [][(unacked # <<>> /\ unacked' = Tail(unacked) /\ verdict' # <<>> /\ verdict'[1].ok)
          => \A id \in IdsOf(ready') \cup IdsOf(unacked') : id > Head(unacked).id]_vars

\* m[k] on a Go map: zero for a missing key.
MapGet(m, k) == IF k \in DOMAIN m THEN m[k] ELSE 0

\* The consume loop finishes its body on the message it read.
BodyDone == fetched # <<>> /\ fetched' = <<>> /\ crashes' = crashes

\* C22: processing a created event of user u with amount a adds 1 to
\* total_transactions, a to total_amount, 1 to u's count and a to u's
\* amount; processing a paid event with count c adds c to
\* total_paid_transactions and changes no transaction count or amount;
\* both set last_event_time to the event's timestamp.
C22_Apply ==
    [][(BodyDone /\ ~UnmarshalError(fetched[1].message.value))
          => LET e == Unmarshal(fetched[1].message.value)
                 u == e.user_id
             IN  /\ analytics'.last_event_time = <<e.timestamp>>
                 /\ e.event_type = "transaction.created"
                      => /\ analytics'.total_transactions = analytics.total_transactions + 1
                         /\ analytics'.total_amount = analytics.total_amount + e.amount
                         /\ MapGet(analytics'.transactions_by_user, u)
                              = MapGet(analytics.transactions_by_user, u) + 1
                         /\ MapGet(analytics'.amount_by_user, u)
                              = MapGet(analytics.amount_by_user, u) + e.amount
                         /\ analytics'.total_paid_transactions
                              = analytics.total_paid_transactions
                 /\ e.event_type = "transaction.paid"
                      => /\ analytics'.total_paid_transactions
                              = analytics.total_paid_transactions + e.transactions_paid
                         /\ analytics'.total_transactions = analytics.total_transactions
                         /\ analytics'.total_amount = analytics.total_amount
                         /\ analytics'.transactions_by_user = analytics.transactions_by_user
                         /\ analytics'.amount_by_user = analytics.amount_by_user]_vars

\* Two created events and a paid event that pays both have been processed.
C22_Witness ==
    /\ analytics.total_transactions = 2
    /\ analytics.total_amount = 800000
    /\ analytics.total_paid_transactions = 2
    /\ MapGet(analytics.transactions_by_user, 1) = 2

\* C23: an envelope whose event type is neither transaction.created nor
\* transaction.paid is taken as handled (the loop moves on, the reader is
\* not rewound) and leaves total_transactions, total_amount,
\* total_paid_transactions and both per-user maps as they were.
C23_UnknownIgnored ==
    [][(/\ BodyDone
        /\ ~UnmarshalError(fetched[1].message.value)
        /\ fetched[1].message.value.event_type
             \notin {"transaction.created", "transaction.paid"})
          => /\ analytics'.total_transactions = analytics.total_transactions
             /\ analytics'.total_amount = analytics.total_amount
             /\ analytics'.total_paid_transactions = analytics.total_paid_transactions
             /\ analytics'.transactions_by_user = analytics.transactions_by_user
             /\ analytics'.amount_by_user = analytics.amount_by_user
             /\ GetStats(analytics').unique_users = GetStats(analytics).unique_users
             /\ position' = position
             /\ running' = running]_vars

\* A refunded envelope of user 2 was processed after a created event of
\* user 1: the aggregate still knows one user.
C23_Witness ==
    /\ \E s \in DOMAIN handled : s < 0
    /\ analytics.total_transactions = 1
    /\ analytics.last_event_time = <<RefundedEvent.timestamp>>
    /\ GetStats(analytics).unique_users = 1

\* C24: a message that does not decode is taken as handled: the aggregate,
\* events_processed and last_event_time included, stays as it was, the
\* reader is not rewound to read the message again, and the loop keeps
\* running with no message in hand, so that its next step is a read.
C24_DecodeFailureSkipped ==
    [][(BodyDone /\ UnmarshalError(fetched[1].message.value))
          => /\ analytics' = analytics
             /\ position' = position
             /\ queued' = queued
             /\ committed' = committed
             /\ topic' = topic
             /\ running' = running]_vars

\* A partition holds a message that does not decode and behind it an event
\* that has been processed.
C24_Witness ==
    \E p \in Partitions : \E k \in 1..position[p] : \E j \in 1..position[p] :
        /\ k < j
        /\ UnmarshalError(PartitionLog(p)[k].value)
        /\ PartitionLog(p)[j].seq \in DOMAIN handled
        /\ analytics.events_processed > 0

\* C29: the aggregate changes only on messages that ReadMessage returned
\* while the context was not cancelled.
C29_NoApplyAfterCancel ==
    [][(BodyDone /\ analytics' # analytics) => ~fetched[1].cancelled]_vars

\* C25: every map GetStats returned is what GetStats gives on the aggregate
\* after some number of completed ProcessEvent calls; at most one goroutine
\* is between the Lock and the Unlock of ProcessEvent, and none is while
\* GetStats reads.
C25_SnapshotAtomic ==
    /\ returned # <<>> => returned[1] \in history
    /\ Cardinality({t \in Appliers : pc[t] > 0}) <= 1
    /\ (\E t \in Readers : pc[t] > 0) => \A t \in Appliers : pc[t] = 0

\* GetStats returned the aggregate of one processed creation, and a second
\* ProcessEvent has since counted its transaction and not yet its amount.
C25_Witness ==
    /\ returned # <<>>
    /\ returned[1].total_transactions = 1
    /\ returned[1].total_amount = 400000
    /\ \E t \in Appliers : pc[t] = 3
    /\ analytics.total_transactions = 2
    /\ analytics.total_amount = 400000

\* The created events among those processed.
CreatedEvents == {e \in AppliedEvents : e.event_type = "transaction.created"}

\* C26: when one created event has been processed k times, and no other
\* created event, GetStats reports total_transactions k, total_amount k
\* times the event's amount, and one unique user.
C26_NoDeduplication ==
    (\A t \in Appliers : pc[t] = 0)
      => \A e \in CreatedEvents : \A k \in 1..MaxApplies :
            (completions[e] = k /\ \A f \in CreatedEvents \ {e} : completions[f] = 0)
              => /\ GetStats(analytics).total_transactions = k
                 /\ GetStats(analytics).total_amount = k * e.amount
                 /\ GetStats(analytics).unique_users = 1
                 /\ MapGet(analytics.transactions_by_user, e.user_id) = k

\* The same created event has been processed three times, and GetStats has
\* returned the map that shows it.
C26_Witness ==
    /\ \E e \in CreatedEvents : completions[e] = 3
    /\ returned # <<>>
    /\ returned[1].total_transactions = 3
    /\ returned[1].total_amount = 1200000
    /\ returned[1].unique_users = 1

\* The first three creations of the scenario are the rows stored.
ScenarioStored(rows) ==
    /\ Len(rows) = 3
    /\ \A i \in 1..3 : rows[i].user_id = 1 /\ rows[i].amount = ScenarioAmounts[i]

\* Every message of the topic has been read and processed.
AllConsumed ==
    /\ fetched = <<>>
    /\ \A p \in Partitions : position[p] = Len(PartitionLog(p))

\* The scenario's events, three created and one paid, are all on the topic
\* and have been consumed once each.
ScenarioConsumed ==
    /\ ScenarioStored(transactions)
    /\ \A i \in 1..3 : transactions[i].is_paid
    /\ tasks = {}
    /\ dropped = {}
    /\ spawned = 4
    /\ Len(topic) = 4
    /\ AllConsumed
    /\ NoDuplicateDelivery

\* C27: with every publish written and every message consumed once, the
\* creations of 400.00, 300.00 and 250.00 of user 1, submitted in sequence
\* through the HTTP handler, each succeed; a creation of 100.00 after them
\* is refused for exceeding the maximum, with current_total 950.00 and
\* max_allowed 1000.00, and stores nothing; the pay that follows returns 3;
\* and once the four events are consumed GetStats reports
\* total_transactions 3, total_amount 950.00, total_paid_transactions 3 and
\* unique_users 1.
C27_EndToEnd ==
    [][/\ \A k \in 1..3 :
            (/\ Len(transactions) = k - 1
             /\ last'.op = "create"
             /\ last'.amount = ScenarioAmounts[k])
              => /\ last'.status = "201"
                 /\ Len(transactions') = k
                 /\ transactions'[k].amount = ScenarioAmounts[k]
                 /\ ~transactions'[k].is_paid
       /\ (/\ ScenarioStored(transactions)
           /\ last'.op = "create"
           /\ last'.amount = ScenarioAmounts[4])
            => /\ last'.status = "400"
               /\ ErrorsIs(last'.err, ErrExceedsMaximum)
               /\ last'.current_total = <<95000>>
               /\ last'.max_allowed = <<100000>>
               /\ transactions' = transactions
       /\ (/\ ScenarioStored(transactions)
           /\ \A i \in 1..3 : ~transactions[i].is_paid
           /\ last'.op = "pay")
            => /\ last'.status = "200"
               /\ last'.count = 3
               /\ \A i \in 1..3 : transactions'[i].is_paid
       /\ ScenarioConsumed'
            => /\ GetStats(analytics').total_transactions = 3
               /\ GetStats(analytics').total_amount = 950000
               /\ GetStats(analytics').total_paid_transactions = 3
               /\ GetStats(analytics').unique_users = 1]_vars

\* The scenario has run to its end: the three rows are paid, the four
\* events are consumed, the aggregate reports them, and the creation of
\* 100.00 has just been refused with the total of 950.00.
C27_Witness ==
    /\ ScenarioConsumed
    /\ GetStats(analytics).total_transactions = 3
    /\ GetStats(analytics).total_amount = 950000
    /\ GetStats(analytics).total_paid_transactions = 3
    /\ GetStats(analytics).unique_users = 1
    /\ last.op = "create"
    /\ last.amount = 100000
    /\ last.current_total = <<95000>>
    /\ last.max_allowed = <<100000>>

\* C33: no publish goroutine waits for another: whichever goroutines have
\* been started and have not run, each of them can be the next to write its
\* event, so the event of a later mutation can reach the topic, and the
\* aggregate, before the event of an earlier one.
C33_EmissionUnordered ==
    \A t \in tasks :
        ENABLED (/\ \/ PublishTransactionCreated(t, "written")
                    \/ PublishTransactionPaid(t, "written")
                 /\ UNCHANGED <<consumer, rabbit, identity>>)

\* Two mutations of user 1 answered one after the other: the event of the
\* second is on the topic and in the aggregate while the goroutine of the
\* first has not run.
C33_Witness ==
    /\ \E t \in tasks : t.seq = 1 /\ t.event.user_id = 1
    /\ \E i \in 1..Len(topic) : topic[i].seq = 2 /\ topic[i].value.user_id = 1
    /\ 2 \in DOMAIN handled
    /\ 1 \notin DOMAIN handled
    /\ analytics.events_processed = 1

\* C34: a step of the consume loop that changes the aggregate lowers none
\* of events_processed, total_transactions, total_paid_transactions,
\* total_amount, unique_users, nor any user's count or amount, and removes
\* no user from either map.
C34_Accumulates ==
    [][(analytics' # analytics /\ crashes' = crashes)
          => /\ analytics'.events_processed >= analytics.events_processed
             /\ analytics'.total_transactions >= analytics.total_transactions
             /\ analytics'.total_paid_transactions >= analytics.total_paid_transactions
             /\ analytics'.total_amount >= analytics.total_amount
             /\ GetStats(analytics').unique_users >= GetStats(analytics).unique_users
             /\ \A u \in DOMAIN analytics.transactions_by_user :
                  /\ u \in DOMAIN analytics'.transactions_by_user
                  /\ analytics'.transactions_by_user[u] >= analytics.transactions_by_user[u]
             /\ \A u \in DOMAIN analytics.amount_by_user :
                  /\ u \in DOMAIN analytics'.amount_by_user
                  /\ analytics'.amount_by_user[u] >= analytics.amount_by_user[u]]_vars

\* A created, a paid and an unknown event have been processed, the unknown
\* one not last.
C34_Witness ==
    /\ analytics.events_processed = 3
    /\ analytics.total_transactions = 1
    /\ analytics.total_paid_transactions = 1
    /\ analytics.last_event_time # <<RefundedEvent.timestamp>>
    /\ \E s \in DOMAIN handled : s < 0

\* The sum of the values a map holds under the given keys.
RECURSIVE SumOver(_, _)
SumOver(m, keys) ==
    IF keys = {} THEN 0
    ELSE LET k == CHOOSE x \in keys : TRUE
         IN  m[k] + SumOver(m, keys \ {k})

C35_EachWithinCap ==
    [][/\ \A i \in 1..Len(transactions') :
            /\ transactions'[i].amount > 0
            /\ transactions'[i].amount <= MaxTransactionTotal
       /\ \A w \in Workers :
            (req[w].pc = "insert" /\ Len(transactions') > Len(transactions))
              => req[w].currentTotal + req[w].amount <= MaxTransactionTotal]_vars

\* The event e is the created event of a stored transaction.
OfStoredTransaction(e) ==
    \E i \in 1..Len(transactions) :
        /\ transactions[i].id = e.transaction_id
        /\ transactions[i].user_id = e.user_id
        /\ transactions[i].amount = e.amount
        /\ transactions[i].description = e.description

\* The event e is the paid event of a pay that flipped rows of its user.
OfCommittedPay(e) ==
    /\ e.transactions_paid > 0
    /\ e.transactions_paid
          <= Cardinality({i \in OwnedBy(e.user_id) : transactions[i].is_paid})

Flipped ==
    {i \in 1..Len(transactions) : ~transactions[i].is_paid /\ transactions'[i].is_paid}

\* C37: the counts the pays return add up to the number of paid
\* transactions: a paid transaction stays paid, rows are marked paid only by
\* a pay that returns their number to its caller, all of them rows of its
\* user, and a pay that returns a count has marked that many rows.
C37_PaidCountedOnce ==
    [][/\ \A i \in 1..Len(transactions) :
            transactions[i].is_paid => transactions'[i].is_paid
       /\ Flipped # {}
            => /\ last'.op = "pay"
               /\ last'.err = NoError
               /\ last'.count = Cardinality(Flipped)
               /\ \A i \in Flipped : transactions[i].user_id = last'.user_id
       /\ (last'.op = "pay" /\ last'.err = NoError)
            => last'.count = Cardinality(Flipped)]_vars

\* C39: when the HTTP handler answers a create with the maximum exceeded,
\* the current_total it reports is the user's total in the store, and with
\* the requested amount it passes the maximum.
C39_ReportedTotal ==
    (last.op = "create" /\ last.via = "http" /\ ErrorsIs(last.err, ErrExceedsMaximum))
      => /\ last.current_total = <<FormatFloat2(GetTotalAmountByUserID(last.user_id))>>
         /\ last.current_total[1] * 10 + last.amount > MaxTransactionTotal

\* C40: in KafkaConsumer.Consume a step that logs a handler error leaves
\* the reader where it is and the loop running with no message in hand; no
\* message is handed to the handler twice; and every message on the topic
\* is in the end handed to the handler, whatever the handler returned on
\* the messages before it.
C40_HandlerErrorLogged ==
    /\ [][logged' # logged
            => /\ position' = position
               /\ queued' = queued
               /\ running'
               /\ fetched' = <<>>]_vars
    /\ []NoDuplicateDelivery
    /\ \A s \in 1..MaxEvents :
          (\E i \in 1..Len(topic) : topic[i].seq = s) ~> (s \in DOMAIN handled)

\* The handler failed on the first message of a partition and has run on
\* the one behind it.
C40_Witness ==
    \E p \in Partitions :
        /\ Len(PartitionLog(p)) >= 2
        /\ PartitionLog(p)[1].seq \in logged
        /\ PartitionLog(p)[2].seq \in DOMAIN handled
        /\ PartitionLog(p)[2].seq \notin logged

\* The usernames of the stored users.
UsernamesOf(us) == {us[i].username : i \in 1..Len(us)}

C31_CallerEqualsSubject ==
    /\ \A w \in Workers : entry[w] # NoEntry => entry[w].user_id = entry[w].subject
    /\ \A w \in Workers : req[w].pc # "idle" => req[w].user_id = entry[w].subject

====
